---- MODULE Spec2Model ----
(***************************************************************************)
(* Streaming moment engines of the stream repository.                      *)
(*                                                                         *)
(*   moment.Core  (src/joint/metric.go, lines 21-301): one scalar stream,  *)
(*                mean and centralized power sums up to a maximum order.   *)
(*   joint.Core   (src/joint/core.go): k co-observed variables, sums keyed *)
(*                by the hash of an exponent tuple.                        *)
(*                                                                         *)
(* float64 values are modelled as exact rationals <<num, den>> in lowest   *)
(* terms, den > 0: every +, -, *, / and math.Pow of the source is the      *)
(* exact operation, rounding is left out.  "Equal" below is therefore      *)
(* exact equality of the real numbers the code computes.                   *)
(***************************************************************************)
EXTENDS Integers, Sequences, FiniteSets, TLC

(***************************************************************************)
(* Bounds of the model.  They keep every numerator and denominator of the  *)
(* exact values below within TLC's 32-bit integers.                        *)
(***************************************************************************)
\* largest scalar observation pushed into the univariate engine
MaxVal == 4
\* largest component of an observation pushed into the joint engine
MaxJointVal == 2
\* largest number of pushes since construction or the last Clear
MaxPushes == 4
\* largest configured window
MaxWindow == 2

\* largest value pushed into a median tracker
MaxMedianVal == 3
\* largest number of pushes into a median tracker
MaxMedianPushes == 5
\* largest window of a median tracker
MaxMedianWindow == 3
\* largest value stored in a tree
MaxTreeVal == 4
\* largest number of nodes of a tree
MaxNodes == 5

Values == 1..MaxVal
JointValues == 1..MaxJointVal
Windows == 0..MaxWindow
MedianValues == 1..MaxMedianVal
MedianWindows == 0..MaxMedianWindow
TreeValues == 1..MaxTreeVal

(***************************************************************************)
(* Exact rational arithmetic standing for float64.                         *)
(***************************************************************************)
Abs(n) == IF n < 0 THEN -n ELSE n

RECURSIVE GCD(_, _)
GCD(a, b) == IF b = 0 THEN a ELSE GCD(b, a % b)

QNorm(n, d) ==
    LET g == GCD(Abs(n), d) IN <<n \div g, d \div g>>

QInt(n) == <<n, 1>>
QZero == <<0, 1>>
QOne == <<1, 1>>

QAdd(a, b) ==
    LET g == GCD(a[2], b[2])
    IN  QNorm(a[1] * (b[2] \div g) + b[1] * (a[2] \div g), (a[2] \div g) * b[2])

QNeg(a) == <<-a[1], a[2]>>

QSub(a, b) == QAdd(a, QNeg(b))

QMul(a, b) ==
    IF a[1] = 0 \/ b[1] = 0 THEN QZero
    ELSE LET g1 == GCD(Abs(a[1]), b[2])
             g2 == GCD(Abs(b[1]), a[2])
         IN  <<(a[1] \div g1) * (b[1] \div g2), (a[2] \div g2) * (b[2] \div g1)>>

QInv(a) == IF a[1] > 0 THEN <<a[2], a[1]>> ELSE <<-a[2], -a[1]>>

QDiv(a, b) == QMul(a, QInv(b))

RECURSIVE QPow(_, _)
QPow(a, k) == IF k = 0 THEN QOne ELSE QMul(a, QPow(a, k - 1))

(***************************************************************************)
(* util/math helpers (not under src/): parity sign and binomial.           *)
(***************************************************************************)
Sign(k) == IF k % 2 = 0 THEN 1 ELSE -1

RECURSIVE Binom(_, _)
Binom(n, k) ==
    IF k < 0 \/ k > n THEN 0
    ELSE IF k = 0 \/ k = n THEN 1
    ELSE Binom(n - 1, k - 1) + Binom(n - 1, k)

(***************************************************************************)
(* State.                                                                  *)
(***************************************************************************)
VARIABLES
    engine,        \* what this run drives: "moment", "joint", "median" or "avl"
    momentConfig,  \* the CoreConfig handed to moment.NewCore
    moment,        \* the moment.Core struct
    jointConfig,   \* the CoreConfig handed to joint.NewCore
    joint,         \* the joint.Core struct
    pc,            \* position inside Push: "idle", or "evicted" after pop+remove
    arg,           \* the argument of the Push in progress
    ret,           \* what the last completed call returned
    hist,          \* ghost: observations pushed since construction / last Clear
    dropped,       \* ghost: observations the last call, a Clear, discarded from the buffer
    mux,           \* the sync.RWMutex of the core in use
    threads,       \* the caller threads: their call, their position in it, what they read
    writes,        \* ghost: steps of Push and Clear bodies that changed the core
    median,        \* the quantile.HeapMedian struct
    tree,          \* the root of the avl tree
    bag,           \* ghost: the values added to the tree and not removed since
    coreSet        \* whether the metric wrapper in use has been given its core

vars == <<engine, momentConfig, moment, jointConfig, joint, pc, arg, ret, hist, dropped,
          mux, threads, writes, median, tree, bag, coreSet>>

\* the quantile structures are left out of the specifications of the cores
quantileVars == <<median, tree, bag>>

\* the caller threads are left out of the sequential specification
lockVars == <<mux, threads, writes>>

Nil == <<>>

\* the zero value of sync.RWMutex: no reader, no writer holding or waiting
NoThread == "none"
Unlocked == [readers |-> 0, writer |-> NoThread, held |-> FALSE]
Decays == {Nil, <<1, 2>>, <<1, 4>>}
MomentSums == {{2}, {1, 3}, {1, 2, 3, 4}}
JointDecays == {Nil, <<1, 4>>}
JointSums == { <<(<<1, 1>>)>>,
               <<(<<1, 1>>), (<<2, 0>>), (<<0, 2>>)>>,
               <<(<<2, 1>>)>>,
               <<(<<2, 1>>), (<<2, 0>>)>> }
JointObs == JointValues \X JointValues
BadArity == {<<1>>, <<1, 2, 1>>}

ErrorNoValuesSeen == "no values seen yet"
ErrorNotTracked == "is not a tracked power sum"
ErrorArity == "tried to push a number of values other than the tracked variables"
ErrorNotVariable == "is not a tracked variable"
OK == "nil"

SetMax(S) == IF S = {} THEN -1 ELSE CHOOSE m \in S : \A n \in S : n <= m

(***************************************************************************)
(* moment.Core                                                             *)
(***************************************************************************)
NewCore(config) ==
    [ mean   |-> QZero,
      sums   |-> [k \in 0..SetMax(config.Sums) |-> QZero],
      count  |-> 0,
      window |-> config.Window,
      decay  |-> config.Decay,
      queue  |-> <<>> ]

len(sums) == Cardinality(DOMAIN sums)

\* the inner loop of add: i = 1 .. k-2, reading c.sums[k-i] in place
RECURSIVE addCross(_, _, _, _, _, _)
addCross(sums, k, i, count, delta, acc) ==
    IF i > k - 2 THEN acc
    ELSE addCross(sums, k, i + 1, count, delta,
                  QAdd(acc, QMul(QMul(QInt(Binom(k, i) * Sign(i)),
                                      QPow(QDiv(delta, count), i)),
                                 sums[k - i])))

\* the outer loop of add: k = len(sums)-1 down to 2, updating c.sums[k] in place
RECURSIVE addLoop(_, _, _, _)
addLoop(sums, k, count, delta) ==
    IF k < 2 THEN sums
    ELSE LET direct ==
                 QMul(QMul(QDiv(QSub(count, QOne), QPow(count, k)),
                           QAdd(QPow(QSub(count, QOne), k - 1), QInt(Sign(k)))),
                      QPow(delta, k))
             first == QAdd(sums[k], direct)
         IN  addLoop([sums EXCEPT ![k] = addCross(sums, k, 1, count, delta, first)],
                     k - 1, count, delta)

\* add with delta taken after the mean has moved
addDeltaAfterMean(c, x) ==
    LET count == QInt(c.count + 1)
        mean  == QAdd(c.mean, QDiv(QSub(x, c.mean), count))
        delta == QSub(x, mean)
    IN  [c EXCEPT !.count = c.count + 1,
                  !.mean  = mean,
                  !.sums  = addLoop(c.sums, len(c.sums) - 1, count, delta)]

add(c, x) ==
    LET count == QInt(c.count + 1)
        delta == QSub(x, c.mean)
    IN  [c EXCEPT !.count = c.count + 1,
                  !.mean  = QAdd(c.mean, QDiv(delta, count)),
                  !.sums  = addLoop(c.sums, len(c.sums) - 1, count, delta)]

\* the inner loop of addDecay: i = 1 .. k-2, reading c.sums[k-i] in place
RECURSIVE addDecayCross(_, _, _, _, _, _)
addDecayCross(sums, k, i, decay, delta, acc) ==
    IF i > k - 2 THEN acc
    ELSE addDecayCross(sums, k, i + 1, decay, delta,
                       QAdd(acc, QMul(QMul(QMul(QInt(Binom(k, i) * Sign(i)),
                                                QPow(QMul(decay, delta), i)),
                                           QSub(QOne, decay)),
                                      sums[k - i])))

\* the outer loop of addDecay: k = len(sums)-1 down to 2
RECURSIVE addDecayLoop(_, _, _, _)
addDecayLoop(sums, k, decay, delta) ==
    IF k < 2 THEN sums
    ELSE LET old   == QMul(QSub(QOne, decay), sums[k])
             coeff == QAdd(QMul(QSub(QOne, decay), QPow(QNeg(decay), k)),
                           QMul(decay, QPow(QSub(QOne, decay), k)))
             term  == QPow(delta, k)
             first == QAdd(old, QMul(coeff, term))
         IN  addDecayLoop(
                 [sums EXCEPT ![k] = addDecayCross(sums, k, 1, decay, delta, first)],
                 k - 1, decay, delta)

\* addDecay that always uses the configured decay, also for the first value
addDecayNoBootstrap(c, x) ==
    LET decay == c.decay
        delta == QSub(x, c.mean)
    IN  [c EXCEPT !.count = c.count + 1,
                  !.mean  = QAdd(c.mean, QMul(decay, delta)),
                  !.sums  = addDecayLoop(c.sums, len(c.sums) - 1, decay, delta)]

addDecay(c, x) ==
    LET decay == IF c.count + 1 = 1 THEN QOne ELSE c.decay
        delta == QSub(x, c.mean)
    IN  [c EXCEPT !.count = c.count + 1,
                  !.mean  = QAdd(c.mean, QMul(decay, delta)),
                  !.sums  = addDecayLoop(c.sums, len(c.sums) - 1, decay, delta)]

\* the inner loop of remove: i = 1 .. k-2, reading c.sums[k-i] in place
RECURSIVE removeCross(_, _, _, _, _, _)
removeCross(sums, k, i, count, delta, acc) ==
    IF i > k - 2 THEN acc
    ELSE removeCross(sums, k, i + 1, count, delta,
                     QSub(acc, QMul(QMul(QInt(Binom(k, i) * Sign(i)),
                                         QPow(QDiv(delta, QAdd(count, QOne)), i)),
                                    sums[k - i])))

\* the outer loop of remove: k = 2 up to len(sums)-1
RECURSIVE removeLoop(_, _, _, _)
removeLoop(sums, k, count, delta) ==
    IF k > len(sums) - 1 THEN sums
    ELSE LET direct ==
                 QMul(QMul(QDiv(count, QPow(QAdd(count, QOne), k)),
                           QAdd(QPow(count, k - 1), QInt(Sign(k)))),
                      QPow(delta, k))
             first == QSub(sums[k], direct)
         IN  removeLoop(
                 [sums EXCEPT ![k] = removeCross(sums, k, 1, count, delta, first)],
                 k + 1, count, delta)

\* remove whose reset branch clears the sums and forgets the mean
removeKeepsMean(c, x) ==
    IF c.count - 1 > 0
    THEN LET count == QInt(c.count - 1)
             mean  == QSub(c.mean, QDiv(QSub(x, c.mean), count))
             delta == QSub(x, mean)
         IN  [c EXCEPT !.count = c.count - 1,
                       !.mean  = mean,
                       !.sums  = removeLoop(c.sums, 2, count, delta)]
    ELSE [c EXCEPT !.count = c.count - 1,
                   !.sums  = [k \in DOMAIN c.sums |-> QZero]]

remove(c, x) ==
    IF c.count - 1 > 0
    THEN LET count == QInt(c.count - 1)
             mean  == QSub(c.mean, QDiv(QSub(x, c.mean), count))
             delta == QSub(x, mean)
         IN  [c EXCEPT !.count = c.count - 1,
                       !.mean  = mean,
                       !.sums  = removeLoop(c.sums, 2, count, delta)]
    ELSE [c EXCEPT !.count = c.count - 1,
                   !.mean  = QZero,
                   !.sums  = [k \in DOMAIN c.sums |-> QZero]]

\* the tail of UnsafePush: c.add or c.addDecay, chosen by c.decay
insert(c, x) == IF c.decay = Nil THEN add(c, x) ELSE addDecay(c, x)

\* queue.Put
Put(c, x) == [c EXCEPT !.queue = Append(c.queue, x)]

\* queue.Get: pops the oldest element
Get(c) == [c EXCEPT !.queue = Tail(c.queue)]

\* UnsafeClear without queue.Reset
UnsafeClearKeepsQueue(c) ==
    [c EXCEPT !.sums  = [k \in DOMAIN c.sums |-> QZero],
              !.count = 0,
              !.mean  = QZero]

UnsafeClear(c) ==
    [c EXCEPT !.sums  = [k \in DOMAIN c.sums |-> QZero],
              !.count = 0,
              !.mean  = QZero,
              !.queue = <<>>]

UnsafeMean(c) ==
    IF c.count = 0 THEN [val |-> QZero, err |-> ErrorNoValuesSeen]
    ELSE [val |-> c.mean, err |-> OK]

\* UnsafeSum that checks the order before the count
UnsafeSumOrderFirst(c, k) ==
    IF k <= 0 \/ k >= len(c.sums) THEN [val |-> QZero, err |-> ErrorNotTracked]
    ELSE IF c.count = 0 THEN [val |-> QZero, err |-> ErrorNoValuesSeen]
    ELSE [val |-> c.sums[k], err |-> OK]

\* UnsafeSum that lets order 0 through (k < 0 for k <= 0)
UnsafeSumZeroOrder(c, k) ==
    IF c.count = 0 THEN [val |-> QZero, err |-> ErrorNoValuesSeen]
    ELSE IF k < 0 \/ k >= len(c.sums) THEN [val |-> QZero, err |-> ErrorNotTracked]
    ELSE [val |-> c.sums[k], err |-> OK]

UnsafeSum(c, k) ==
    IF c.count = 0 THEN [val |-> QZero, err |-> ErrorNoValuesSeen]
    ELSE IF k <= 0 \/ k >= len(c.sums) THEN [val |-> QZero, err |-> ErrorNotTracked]
    ELSE [val |-> c.sums[k], err |-> OK]

UnsafeCount(c) == c.count

(***************************************************************************)
(* Tuple algebra of package joint (not under src/): exponent tuples are    *)
(* sequences of naturals.                                                  *)
(***************************************************************************)
HashBase == 8

RECURSIVE abs(_)
abs(t) == IF t = <<>> THEN 0 ELSE Head(t) + abs(Tail(t))

eq(a, b) == a = b

sub(a, b) == [i \in DOMAIN a |-> a[i] - b[i]]

RECURSIVE multinom(_, _)
multinom(a, b) ==
    IF a = <<>> THEN 1 ELSE Binom(Head(a), Head(b)) * multinom(Tail(a), Tail(b))

RECURSIVE hash(_)
hash(t) == IF t = <<>> THEN 0 ELSE Head(t) + HashBase * hash(Tail(t))

RECURSIVE pow(_, _)
pow(delta, b) ==
    IF b = <<>> THEN QOne
    ELSE QMul(QPow(Head(delta), Head(b)), pow(Tail(delta), Tail(b)))

\* number of tuples b with 0 <= b <= t componentwise
RECURSIVE iterCount(_)
iterCount(t) == IF t = <<>> THEN 1 ELSE (Head(t) + 1) * iterCount(Tail(t))

\* the n-th tuple below t, first component running fastest
RECURSIVE iterNth(_, _)
iterNth(t, n) ==
    IF t = <<>> THEN <<>>
    ELSE <<n % (Head(t) + 1)>> \o iterNth(Tail(t), n \div (Head(t) + 1))

\* iter(tuple, reverse, cb): the tuples cb is called on, in call order; every
\* tuple is visited after all tuples componentwise below it (before, if reverse)
iter(t, reverse) ==
    LET n == iterCount(t)
    IN  [i \in 1..n |-> iterNth(t, IF reverse THEN n - i ELSE i - 1)]

(***************************************************************************)
(* joint.Core                                                              *)
(***************************************************************************)
\* Go map read: the zero value for a missing key
MapGet(m, h) == IF h \in DOMAIN m THEN m[h] ELSE QZero

\* Go map write
MapSet(m, h, v) == (h :> v) @@ m

\* keys NewCore creates for the configured tuples
RECURSIVE jointKeys(_)
jointKeys(tuples) ==
    IF tuples = <<>> THEN {}
    ELSE LET bs == iter(Head(tuples), FALSE)
         IN  {hash(bs[i]) : i \in DOMAIN bs} \cup jointKeys(Tail(tuples))

\* NewCore that creates keys for the configured tuples only
jointNewCoreTargetKeys(config) ==
    [ means   |-> [i \in 1..config.Vars |-> QZero],
      tuples  |-> config.Sums,
      sums    |-> [h \in {hash(config.Sums[i]) : i \in DOMAIN config.Sums} |-> QZero],
      newSums |-> [h \in {hash(config.Sums[i]) : i \in DOMAIN config.Sums} |-> QZero],
      count   |-> 0,
      window  |-> config.Window,
      decay   |-> config.Decay,
      queue   |-> <<>> ]

jointNewCore(config) ==
    [ means   |-> [i \in 1..config.Vars |-> QZero],
      tuples  |-> config.Sums,
      sums    |-> [h \in jointKeys(config.Sums) |-> QZero],
      newSums |-> [h \in jointKeys(config.Sums) |-> QZero],
      count   |-> 0,
      window  |-> config.Window,
      decay   |-> config.Decay,
      queue   |-> <<>> ]

\* body of the inner callback of add for one b; returns the new c.newSums
jointAddTerm(sums, newSums, a, b, count, delta) ==
    LET h == hash(a)
        deltaPow == pow(delta, b)
    IN  IF abs(b) = 0 THEN MapSet(newSums, h, QAdd(MapGet(newSums, h), MapGet(sums, h)))
        ELSE IF eq(b, a) THEN
            LET coeff == QMul(QDiv(QSub(count, QOne), QPow(count, abs(b))),
                              QAdd(QPow(QSub(count, QOne), abs(b) - 1),
                                   QInt(Sign(abs(b)))))
            IN  MapSet(newSums, h, QAdd(MapGet(newSums, h), QMul(coeff, deltaPow)))
        ELSE
            MapSet(newSums, h,
                   QAdd(MapGet(newSums, h),
                        QMul(QMul(QDiv(QInt(multinom(a, b) * Sign(abs(b))),
                                       QPow(count, abs(b))),
                                  deltaPow),
                             MapGet(sums, hash(sub(a, b))))))

\* body of the inner callback of addDecay for one b
jointAddDecayTerm(sums, newSums, a, b, decay, delta) ==
    LET h == hash(a)
        deltaPow == pow(delta, b)
    IN  IF abs(b) = 0
        THEN MapSet(newSums, h,
                    QAdd(MapGet(newSums, h), QMul(QSub(QOne, decay), MapGet(sums, h))))
        ELSE IF eq(b, a) THEN
            LET coeff == QAdd(QMul(QSub(QOne, decay), QPow(QNeg(decay), abs(b))),
                              QMul(decay, QPow(QSub(QOne, decay), abs(b))))
            IN  MapSet(newSums, h, QAdd(MapGet(newSums, h), QMul(coeff, deltaPow)))
        ELSE
            MapSet(newSums, h,
                   QAdd(MapGet(newSums, h),
                        QMul(QMul(QMul(QMul(QInt(multinom(a, b) * Sign(abs(b))),
                                            QPow(decay, abs(b))),
                                       deltaPow),
                                  QSub(QOne, decay)),
                             MapGet(sums, hash(sub(a, b))))))

\* body of the inner callback of remove for one b: the cross term reads newSums
jointRemoveTerm(sums, newSums, a, b, count, delta) ==
    LET h == hash(a)
        deltaPow == pow(delta, b)
    IN  IF abs(b) = 0 THEN MapSet(newSums, h, QAdd(MapGet(newSums, h), MapGet(sums, h)))
        ELSE IF eq(b, a) THEN
            LET coeff == QMul(QDiv(count, QPow(QAdd(count, QOne), abs(b))),
                              QAdd(QPow(count, abs(b) - 1), QInt(Sign(abs(b)))))
            IN  MapSet(newSums, h, QSub(MapGet(newSums, h), QMul(coeff, deltaPow)))
        ELSE
            MapSet(newSums, h,
                   QSub(MapGet(newSums, h),
                        QMul(QMul(QDiv(QInt(multinom(a, b) * Sign(abs(b))),
                                       QPow(QAdd(count, QOne), abs(b))),
                                  deltaPow),
                             MapGet(newSums, hash(sub(a, b))))))

jointTerm(op, sums, newSums, a, b, p, delta) ==
    CASE op = "add"      -> jointAddTerm(sums, newSums, a, b, p, delta)
      [] op = "addDecay" -> jointAddDecayTerm(sums, newSums, a, b, p, delta)
      [] op = "remove"   -> jointRemoveTerm(sums, newSums, a, b, p, delta)

\* Operator arguments are evaluated on demand; Strict(v) evaluates v, so that
\* a loop below works on the map of the previous iteration, not on a pending
\* computation of it.
Strict(v) == v = v

\* iter(a, false, ...): the inner callback on bs[j], bs[j+1], ...
RECURSIVE jointInner(_, _, _, _, _, _, _, _)
jointInner(op, sums, newSums, a, bs, j, p, delta) ==
    IF Strict(newSums) /\ j > Len(bs) THEN newSums
    ELSE jointInner(op, sums, jointTerm(op, sums, newSums, a, bs[j], p, delta),
                    a, bs, j + 1, p, delta)

\* iter(tuple, reverse, ...): the outer callback on as[i], as[i+1], ...
RECURSIVE jointOuter(_, _, _, _, _, _, _)
jointOuter(op, sums, newSums, as, i, p, delta) ==
    IF Strict(newSums) /\ i > Len(as) THEN newSums
    ELSE jointOuter(op, sums,
                    jointInner(op, sums, MapSet(newSums, hash(as[i]), QZero),
                               as[i], iter(as[i], FALSE), 1, p, delta),
                    as, i + 1, p, delta)

\* one pass of the loop over c.tuples: fills c.newSums for a configured tuple
jointTuple(op, c, tuple, reverse, p, delta) ==
    [c EXCEPT !.newSums = jointOuter(op, c.sums, c.newSums, iter(tuple, reverse), 1,
                                     p, delta)]

\* for hash, sum := range c.newSums { c.sums[hash] = sum }
commit(c) == [c EXCEPT !.sums = c.newSums @@ c.sums]

\* the loop over c.tuples of add and addDecay: every pass reads the committed sums
RECURSIVE jointAddTuples(_, _, _, _, _)
jointAddTuples(op, c, t, p, delta) ==
    IF t > Len(c.tuples) THEN c
    ELSE jointAddTuples(op, jointTuple(op, c, c.tuples[t], TRUE, p, delta),
                        t + 1, p, delta)

\* the body of add without the final copy of c.newSums into c.sums
jointAddBodyNoCommit(c, xs, count, delta) ==
    jointAddTuples("add",
                   [c EXCEPT !.means = [i \in DOMAIN c.means |->
                                           QAdd(c.means[i], QDiv(delta[i], count))]],
                   1, count, delta)

\* add after c.count++: delta, the means, the loop over c.tuples, the commit
jointAddBody(c, xs, count, delta) ==
    commit(jointAddTuples("add",
                          [c EXCEPT !.means = [i \in DOMAIN c.means |->
                                                  QAdd(c.means[i], QDiv(delta[i], count))]],
                          1, count, delta))

jointAdd(c, xs) ==
    jointAddBody([c EXCEPT !.count = c.count + 1], xs, QInt(c.count + 1),
                 [i \in DOMAIN c.means |-> QSub(xs[i], c.means[i])])

\* addDecay after c.count++ and the choice of decay
jointAddDecayBody(c, xs, decay, delta) ==
    commit(jointAddTuples("addDecay",
                          [c EXCEPT !.means = [i \in DOMAIN c.means |->
                                                  QAdd(c.means[i], QMul(decay, delta[i]))]],
                          1, decay, delta))

jointAddDecay(c, xs) ==
    jointAddDecayBody([c EXCEPT !.count = c.count + 1], xs,
                      IF c.count + 1 = 1 THEN QOne ELSE c.decay,
                      [i \in DOMAIN c.means |-> QSub(xs[i], c.means[i])])

\* the loop over c.tuples of remove: newSums is committed after every tuple
RECURSIVE jointRemoveTuples(_, _, _, _)
jointRemoveTuples(c, t, count, delta) ==
    IF t > Len(c.tuples) THEN c
    ELSE jointRemoveTuples(commit(jointTuple("remove", c, c.tuples[t], FALSE,
                                             count, delta)),
                           t + 1, count, delta)

\* remove after c.count-- and the update of the means, when values remain
jointRemoveBody(c, xs) ==
    jointRemoveTuples(c, 1, QInt(c.count),
                      [i \in DOMAIN c.means |-> QSub(xs[i], c.means[i])])

jointRemove(c, xs) ==
    IF c.count - 1 > 0
    THEN jointRemoveBody(
             [c EXCEPT !.count = c.count - 1,
                       !.means = [i \in DOMAIN c.means |->
                                     QSub(c.means[i],
                                          QDiv(QSub(xs[i], c.means[i]),
                                               QInt(c.count - 1)))]],
             xs)
    ELSE [c EXCEPT !.count   = c.count - 1,
                   !.means   = [i \in DOMAIN c.means |-> QZero],
                   !.sums    = [h \in DOMAIN c.sums |-> QZero],
                   !.newSums = [h \in DOMAIN c.newSums |-> QZero]]

\* the tail of joint UnsafePush: c.add or c.addDecay, chosen by c.decay
jointInsert(c, xs) == IF c.decay = Nil THEN jointAdd(c, xs) ELSE jointAddDecay(c, xs)

jointUnsafeClear(c) ==
    [c EXCEPT !.means   = [i \in DOMAIN c.means |-> QZero],
              !.sums    = [h \in DOMAIN c.sums |-> QZero],
              !.newSums = [h \in DOMAIN c.newSums |-> QZero],
              !.count   = 0,
              !.queue   = <<>>]

\* i is the 0-based index of the source
jointUnsafeMean(c, i) ==
    IF c.count = 0 THEN [val |-> QZero, err |-> ErrorNoValuesSeen]
    ELSE IF i < 0 \/ i >= Len(c.means) THEN [val |-> QZero, err |-> ErrorNotVariable]
    ELSE [val |-> c.means[i + 1], err |-> OK]

jointUnsafeSum(c, xs) ==
    IF c.count = 0 THEN [val |-> QZero, err |-> ErrorNoValuesSeen]
    ELSE IF hash(xs) \notin DOMAIN c.sums THEN [val |-> QZero, err |-> ErrorNotTracked]
    ELSE [val |-> c.sums[hash(xs)], err |-> OK]

jointUnsafeCount(c) == c.count

QSeq(xs) == [i \in DOMAIN xs |-> QInt(xs[i])]

(***************************************************************************)
(* avl.Node: a tree is its root node, NilNode the nil pointer.  The nodes  *)
(* of a tree are reachable from one parent only, so assignments through    *)
(* pointers are record updates.                                            *)
(***************************************************************************)
NilNode == [nil |-> TRUE]
IsNil(n) == "nil" \in DOMAIN n

max(x, y) == IF x > y THEN x ELSE y

NewNode(val) ==
    [left |-> NilNode, right |-> NilNode, val |-> val, height |-> 0, size |-> 1]

Height(n) == IF IsNil(n) THEN -1 ELSE n.height
Size(n) == IF IsNil(n) THEN 0 ELSE n.size

heightDiff(n) == Height(n.left) - Height(n.right)

\* n.size = ...; n.height = ... from the children
avlUpdate(n) ==
    [n EXCEPT !.size = Size(n.left) + Size(n.right) + 1,
              !.height = max(Height(n.left), Height(n.right)) + 1]

\* rotateLeft once n has taken m.left as its right child; size is n.size before
rotateLeftJoin(m, n, size) ==
    [m EXCEPT !.left = n, !.size = size,
              !.height = max(Height(n), Height(m.right)) + 1]

rotateLeft(n) ==
    rotateLeftJoin(n.right, avlUpdate([n EXCEPT !.right = n.right.left]), n.size)

\* rotateRight once n has taken m.right as its left child; size is n.size before
rotateRightJoin(m, n, size) ==
    [m EXCEPT !.right = n, !.size = size,
              !.height = max(Height(m.left), Height(n)) + 1]

rotateRight(n) ==
    rotateRightJoin(n.left, avlUpdate([n EXCEPT !.left = n.left.right]), n.size)

\* balance without the inner rotation of the left-right and right-left cases
balanceSingleRotation(n) ==
    IF heightDiff(n) < -1 THEN rotateLeft(n)
    ELSE IF heightDiff(n) > 1 THEN rotateRight(n)
    ELSE n

balance(n) ==
    IF heightDiff(n) < -1
    THEN rotateLeft(IF heightDiff(n.right) > 0
                    THEN [n EXCEPT !.right = rotateRight(n.right)] ELSE n)
    ELSE IF heightDiff(n) > 1
    THEN rotateRight(IF heightDiff(n.left) < 0
                     THEN [n EXCEPT !.left = rotateLeft(n.left)] ELSE n)
    ELSE n

RECURSIVE avlAdd(_, _)
avlAdd(n, val) ==
    IF IsNil(n) THEN NewNode(val)
    ELSE IF val <= n.val
    THEN balance(avlUpdate([n EXCEPT !.left = avlAdd(n.left, val)]))
    ELSE balance(avlUpdate([n EXCEPT !.right = avlAdd(n.right, val)]))

RECURSIVE min(_)
min(n) == IF IsNil(n.left) THEN n ELSE min(n.left)

RECURSIVE removeMin(_)
removeMin(n) ==
    IF IsNil(n.left) THEN n.right
    ELSE balance(avlUpdate([n EXCEPT !.left = removeMin(n.left)]))

\* remove that takes the left child of the removed node for the whole subtree
RECURSIVE avlRemoveDropsRight(_, _)
avlRemoveDropsRight(n, val) ==
    IF IsNil(n) THEN n
    ELSE IF val < n.val
    THEN balance(avlUpdate([n EXCEPT !.left = avlRemoveDropsRight(n.left, val)]))
    ELSE IF val > n.val
    THEN balance(avlUpdate([n EXCEPT !.right = avlRemoveDropsRight(n.right, val)]))
    ELSE IF IsNil(n.left) THEN n.right
    ELSE n.left

RECURSIVE avlRemove(_, _)
avlRemove(n, val) ==
    IF IsNil(n) THEN n
    ELSE IF val < n.val
    THEN balance(avlUpdate([n EXCEPT !.left = avlRemove(n.left, val)]))
    ELSE IF val > n.val
    THEN balance(avlUpdate([n EXCEPT !.right = avlRemove(n.right, val)]))
    ELSE IF IsNil(n.left) THEN n.right
    ELSE IF IsNil(n.right) THEN n.left
    ELSE balance(avlUpdate([min(n.right) EXCEPT !.right = removeMin(n.right),
                                                !.left = n.left]))

RECURSIVE Select(_, _)
Select(n, k) ==
    IF IsNil(n) THEN NilNode
    ELSE IF k < Size(n.left) THEN Select(n.left, k)
    ELSE IF k > Size(n.left) THEN Select(n.right, k - Size(n.left) - 1)
    ELSE n

RECURSIVE Rank(_, _)
Rank(n, val) ==
    IF IsNil(n) THEN 0
    ELSE IF val < n.val THEN Rank(n.left, val)
    ELSE IF val > n.val THEN 1 + Size(n.left) + Rank(n.right, val)
    ELSE Size(n.left)

(***************************************************************************)
(* quantile.HeapMedian.  A heap.Item is a pointer: items are numbered in   *)
(* the order they are created, an item keeps its value and the heap it is  *)
(* in, the queue holds item numbers.                                       *)
(***************************************************************************)
NewHeapMedian(window) ==
    [window |-> window, items |-> <<>>, queue |-> <<>>, peekedEmpty |-> FALSE]

lowIds(m) == {i \in DOMAIN m.items : m.items[i].heap = "low"}
highIds(m) == {i \in DOMAIN m.items : m.items[i].heap = "high"}

lowLen(m) == Cardinality(lowIds(m))
highLen(m) == Cardinality(highIds(m))

SetMin(S) == CHOOSE m \in S : \A n \in S : m <= n

\* lowHeap is a max-heap, highHeap a min-heap
lowPeek(m) == SetMax({m.items[i].val : i \in lowIds(m)})
highPeek(m) == SetMin({m.items[i].val : i \in highIds(m)})

\* the items heapops.Pop can return: one holding the value at the top
lowTop(m) == {i \in lowIds(m) : m.items[i].val = lowPeek(m)}
highTop(m) == {i \in highIds(m) : m.items[i].val = highPeek(m)}

\* item i holds x in heap h: Update, or Remove, item.Val = x and heapops.Push
heapSet(m, i, x, h) ==
    IF i \in DOMAIN m.items
    THEN [m EXCEPT !.items[i] = [val |-> x, heap |-> h]]
    ELSE [m EXCEPT !.items = Append(@, [val |-> x, heap |-> h])]

\* heapops.Pop of one heap and heapops.Push of the item to the other
heapMove(m, i, h) == [m EXCEPT !.items[i].heap = h]

\* the switch of the full branch on the item taken from the queue
switchFull(m, item, x, low, peek) ==
    IF low /\ x <= peek THEN heapSet(m, item, x, "low")
    ELSE IF ~low /\ x > peek THEN heapSet(m, item, x, "high")
    ELSE IF low /\ x > peek THEN heapSet(m, item, x, "high")
    ELSE heapSet(m, item, x, "low")

\* the placement of the other branch on a new item
placeNew(m, item, x) ==
    IF lowLen(m) = 0 \/ x <= lowPeek(m)
    THEN heapSet(m, item, x, "low")
    ELSE heapSet(m, item, x, "high")

\* the rebalancing of both branches: it leaves the moved item in the variable item
rebalance(m, item) ==
    IF lowLen(m) + 1 < highLen(m)
    THEN {[m |-> heapMove(m, i, "low"), item |-> i] : i \in highTop(m)}
    ELSE IF lowLen(m) > highLen(m) + 1
    THEN {[m |-> heapMove(m, i, "high"), item |-> i] : i \in lowTop(m)}
    ELSE {[m |-> m, item |-> item]}

\* m.queue.Put(item) when there is a window
queuePut(r) ==
    IF r.m.window # 0 THEN [r.m EXCEPT !.queue = Append(@, r.item)] ELSE r.m

queueFull(m) == m.window # 0 /\ Len(m.queue) = m.window

\* the struct after Push(x): one outcome for each item a Pop can return.  In the
\* full branch both cases that can come first read lowHeap.Peek(); on an empty
\* lowHeap the read panics and Push unwinds with the item taken from the queue.
medianPush(m, x) ==
    IF queueFull(m)
    THEN IF lowLen(m) = 0
         THEN {[m EXCEPT !.queue = Tail(@), !.peekedEmpty = TRUE]}
         ELSE {queuePut(r) :
                 r \in rebalance(switchFull([m EXCEPT !.queue = Tail(@)], Head(m.queue), x,
                                            m.items[Head(m.queue)].heap = "low",
                                            lowPeek(m)),
                                 Head(m.queue))}
    ELSE {queuePut(r) :
            r \in rebalance(placeNew(m, Len(m.items) + 1, x), Len(m.items) + 1)}

medianValue(m) ==
    IF lowLen(m) + highLen(m) = 0 THEN [val |-> QZero, err |-> ErrorNoValuesSeen]
    ELSE IF lowLen(m) < highLen(m) THEN [val |-> QInt(highPeek(m)), err |-> OK]
    ELSE IF lowLen(m) > highLen(m) THEN [val |-> QInt(lowPeek(m)), err |-> OK]
    ELSE [val |-> QDiv(QInt(lowPeek(m) + highPeek(m)), QInt(2)), err |-> OK]


DefaultMomentConfig == [Sums |-> {2}, Window |-> 0, Decay |-> Nil]
DefaultJointConfig == [Sums |-> <<(<<1, 1>>)>>, Window |-> 0, Decay |-> Nil, Vars |-> 2]

Done(op, err) == [op |-> op, err |-> err]

Init ==
    /\ engine \in {"moment", "joint"}
    /\ momentConfig \in [Sums : MomentSums, Window : Windows, Decay : Decays]
    /\ jointConfig \in [Sums : JointSums, Window : Windows, Decay : JointDecays, Vars : {2}]
    /\ engine = "moment" => jointConfig = DefaultJointConfig
    /\ engine = "joint" => momentConfig = DefaultMomentConfig
    /\ moment = NewCore(momentConfig)
    /\ joint = jointNewCore(jointConfig)
    /\ pc = "idle"
    /\ arg = Nil
    /\ ret = Done("NewCore", OK)
    /\ hist = <<>>
    /\ dropped = 0
    /\ mux = Unlocked
    /\ threads = <<>>
    /\ writes = 0
    /\ median = NewHeapMedian(0)
    /\ tree = NilNode
    /\ bag = <<>>
    /\ coreSet = TRUE

(***************************************************************************)
(* moment.Core.Push: UnsafePush under the write lock.  A push into a full  *)
(* window is two steps, the eviction (Get + remove) and the insertion      *)
(* (Put + add/addDecay); nothing else runs between them.                   *)
(***************************************************************************)
\* UnsafePush that takes the window for full one value too late
UnsafePushBeginLateFull(c, x) ==
    IF c.window # 0 /\ Len(c.queue) = c.window + 1
    THEN [core |-> remove(Get(c), Head(c.queue)), err |-> OK, pc |-> "evicted"]
    ELSE [core |-> insert(IF c.window # 0 THEN Put(c, x) ELSE c, x),
          err |-> OK, pc |-> "idle"]

\* UnsafePush up to the end of the eviction, or to its end when nothing is evicted
UnsafePushBegin(c, x) ==
    IF c.window # 0 /\ Len(c.queue) = c.window
    THEN [core |-> remove(Get(c), Head(c.queue)), err |-> OK, pc |-> "evicted"]
    ELSE [core |-> insert(IF c.window # 0 THEN Put(c, x) ELSE c, x),
          err |-> OK, pc |-> "idle"]

\* the rest of UnsafePush after an eviction
UnsafePushEnd(c, x) == insert(Put(c, x), x)

MomentPush(x) ==
    /\ engine = "moment"
    /\ pc = "idle"
    /\ Len(hist) < MaxPushes
    /\ ~(moment.window # 0 /\ Len(moment.queue) = moment.window)
    /\ moment' = UnsafePushBegin(moment, QInt(x)).core
    /\ ret' = Done("Push", OK)
    /\ hist' = Append(hist, x)
    /\ dropped' = 0
    /\ UNCHANGED <<quantileVars, coreSet, engine, momentConfig, jointConfig, joint, pc, arg>>
    /\ UNCHANGED lockVars

MomentPushEvict(x) ==
    /\ engine = "moment"
    /\ pc = "idle"
    /\ Len(hist) < MaxPushes
    /\ moment.window # 0 /\ Len(moment.queue) = moment.window
    /\ moment' = UnsafePushBegin(moment, QInt(x)).core
    /\ pc' = "evicted"
    /\ arg' = x
    /\ dropped' = 0
    /\ UNCHANGED <<quantileVars, coreSet, engine, momentConfig, jointConfig, joint, ret, hist>>
    /\ UNCHANGED lockVars

MomentPushInsert ==
    /\ engine = "moment"
    /\ pc = "evicted"
    /\ moment' = UnsafePushEnd(moment, QInt(arg))
    /\ hist' = Append(hist, arg)
    /\ pc' = "idle"
    /\ arg' = Nil
    /\ ret' = Done("Push", OK)
    /\ UNCHANGED <<quantileVars, coreSet, engine, momentConfig, jointConfig, joint, dropped>>
    /\ UNCHANGED lockVars

MomentClear ==
    /\ engine = "moment"
    /\ pc = "idle"
    /\ moment' = UnsafeClear(moment)
    /\ hist' = <<>>
    /\ dropped' = Len(moment.queue)
    /\ ret' = Done("Clear", OK)
    /\ UNCHANGED <<quantileVars, coreSet, engine, momentConfig, jointConfig, joint, pc, arg>>
    /\ UNCHANGED lockVars

(***************************************************************************)
(* joint.Core.Push: UnsafePush under the write lock, in the same steps.    *)
(***************************************************************************)
\* joint UnsafePush that evicts from a full window before it checks the arity
jointUnsafePushBeginEvictFirst(c, xs) ==
    IF c.window # 0 /\ Len(c.queue) = c.window
    THEN [core |-> jointRemove(Get(c), Head(c.queue)),
          err  |-> IF Len(xs) # Len(c.means) THEN ErrorArity ELSE OK,
          pc   |-> IF Len(xs) # Len(c.means) THEN "idle" ELSE "evicted"]
    ELSE IF Len(xs) # Len(c.means)
    THEN [core |-> c, err |-> ErrorArity, pc |-> "idle"]
    ELSE [core |-> jointInsert(IF c.window # 0 THEN Put(c, xs) ELSE c, xs),
          err |-> OK, pc |-> "idle"]

\* joint UnsafePush that removes the incoming observation, not the popped one
jointUnsafePushBeginRemovesIncoming(c, xs) ==
    IF Len(xs) # Len(c.means)
    THEN [core |-> c, err |-> ErrorArity, pc |-> "idle"]
    ELSE IF c.window # 0 /\ Len(c.queue) = c.window
    THEN [core |-> jointRemove(Get(c), xs), err |-> OK, pc |-> "evicted"]
    ELSE [core |-> jointInsert(IF c.window # 0 THEN Put(c, xs) ELSE c, xs),
          err |-> OK, pc |-> "idle"]

\* UnsafePush up to the end of the eviction, or to its return when it returns earlier
jointUnsafePushBegin(c, xs) ==
    IF Len(xs) # Len(c.means)
    THEN [core |-> c, err |-> ErrorArity, pc |-> "idle"]
    ELSE IF c.window # 0 /\ Len(c.queue) = c.window
    THEN [core |-> jointRemove(Get(c), Head(c.queue)), err |-> OK, pc |-> "evicted"]
    ELSE [core |-> jointInsert(IF c.window # 0 THEN Put(c, xs) ELSE c, xs),
          err |-> OK, pc |-> "idle"]

\* the rest of UnsafePush after an eviction
jointUnsafePushEnd(c, xs) == jointInsert(Put(c, xs), xs)

JointPushArity(xs) ==
    /\ engine = "joint"
    /\ pc = "idle"
    /\ Len(xs) # Len(joint.means)
    /\ LET r == jointUnsafePushBegin(joint, QSeq(xs))
       IN  /\ joint' = r.core
           /\ ret' = Done("Push", r.err)
    /\ dropped' = 0
    /\ UNCHANGED <<quantileVars, coreSet, engine, momentConfig, moment, jointConfig, pc, arg, hist>>
    /\ UNCHANGED lockVars

JointPush(xs) ==
    /\ engine = "joint"
    /\ pc = "idle"
    /\ Len(hist) < MaxPushes
    /\ Len(xs) = Len(joint.means)
    /\ ~(joint.window # 0 /\ Len(joint.queue) = joint.window)
    /\ joint' = jointUnsafePushBegin(joint, QSeq(xs)).core
    /\ ret' = Done("Push", OK)
    /\ hist' = Append(hist, xs)
    /\ dropped' = 0
    /\ UNCHANGED <<quantileVars, coreSet, engine, momentConfig, moment, jointConfig, pc, arg>>
    /\ UNCHANGED lockVars

JointPushEvict(xs) ==
    /\ engine = "joint"
    /\ pc = "idle"
    /\ Len(hist) < MaxPushes
    /\ Len(xs) = Len(joint.means)
    /\ joint.window # 0 /\ Len(joint.queue) = joint.window
    /\ joint' = jointUnsafePushBegin(joint, QSeq(xs)).core
    /\ pc' = "evicted"
    /\ arg' = xs
    /\ dropped' = 0
    /\ UNCHANGED <<quantileVars, coreSet, engine, momentConfig, moment, jointConfig, ret, hist>>
    /\ UNCHANGED lockVars

JointPushInsert ==
    /\ engine = "joint"
    /\ pc = "evicted"
    /\ joint' = jointUnsafePushEnd(joint, QSeq(arg))
    /\ hist' = Append(hist, arg)
    /\ pc' = "idle"
    /\ arg' = Nil
    /\ ret' = Done("Push", OK)
    /\ UNCHANGED <<quantileVars, coreSet, engine, momentConfig, moment, jointConfig, dropped>>
    /\ UNCHANGED lockVars

JointClear ==
    /\ engine = "joint"
    /\ pc = "idle"
    /\ joint' = jointUnsafeClear(joint)
    /\ hist' = <<>>
    /\ dropped' = Len(joint.queue)
    /\ ret' = Done("Clear", OK)
    /\ UNCHANGED <<quantileVars, coreSet, engine, momentConfig, moment, jointConfig, pc, arg>>
    /\ UNCHANGED lockVars

Next ==
    \/ \E x \in Values : MomentPush(x)
    \/ \E x \in Values : MomentPushEvict(x)
    \/ MomentPushInsert
    \/ MomentClear
    \/ \E xs \in BadArity : JointPushArity(xs)
    \/ \E xs \in JointObs : JointPush(xs)
    \/ \E xs \in JointObs : JointPushEvict(xs)
    \/ JointPushInsert
    \/ JointClear

Spec == Init /\ [][Next]_vars

(***************************************************************************)
(* Recomputation from the raw observations (ghost history).                *)
(***************************************************************************)
\* the observations in scope: the last W of h, all of h when W = 0
LastW(h, W) ==
    IF W = 0 \/ Len(h) <= W THEN h ELSE SubSeq(h, Len(h) - W + 1, Len(h))

RECURSIVE QSum(_)
QSum(qs) == IF qs = <<>> THEN QZero ELSE QAdd(Head(qs), QSum(Tail(qs)))

\* arithmetic mean of a non-empty sequence of integers
BatchMean(h) == QDiv(QSum([i \in DOMAIN h |-> QInt(h[i])]), QInt(Len(h)))

\* sum over h of (x - mean)^k
BatchSum(h, k) ==
    QSum([i \in DOMAIN h |-> QPow(QSub(QInt(h[i]), BatchMean(h)), k)])

\* mean of variable v over a non-empty sequence of joint observations
JointBatchMean(h, v) == BatchMean([i \in DOMAIN h |-> h[i][v]])

\* sum over h of the product over the variables of (x_v - mean_v)^(t_v)
JointBatchSum(h, t) ==
    QSum([i \in DOMAIN h |->
            pow([v \in DOMAIN t |-> QSub(QInt(h[i][v]), JointBatchMean(h, v))], t)])

\* the exponent tuples a joint core tracks: below a configured tuple
RECURSIVE TrackedTuples(_)
TrackedTuples(tuples) ==
    IF tuples = <<>> THEN {}
    ELSE LET bs == iter(Head(tuples), FALSE)
         IN  {bs[i] : i \in DOMAIN bs} \cup TrackedTuples(Tail(tuples))

MomentMatches(h) ==
    /\ moment.mean = BatchMean(h)
    /\ \A k \in 1..(len(moment.sums) - 1) : moment.sums[k] = BatchSum(h, k)

JointMatches(h, T) ==
    /\ \A v \in DOMAIN joint.means : joint.means[v] = JointBatchMean(h, v)
    /\ \A t \in T : joint.sums[hash(t)] = JointBatchSum(h, t)

NonZero(T) == {t \in T : abs(t) > 0}

Last(h) == h[Len(h)]

AllZero(f) == \A k \in DOMAIN f : f[k] = QZero

\* arguments handed to the queries: orders, variable indices, exponent tuples,
\* tracked and untracked
SumOrders == (-1)..5
MeanIndices == (-1)..2
SumTuples == {<<0, 0>>, <<1, 0>>, <<1, 1>>, <<2, 1>>, <<0, 2>>, <<3, 3>>}

(***************************************************************************)
(* C1  Window correctness.                                                 *)
(***************************************************************************)
\* C1: between two calls, an undecayed engine with window W > 0 that has
\* consumed more than W pushes holds the mean(s) and the sums recomputed from
\* the last W observations; for the joint engine this is stated for the
\* tracked tuples of magnitude >= 1 only, which the claim includes.
C1_WindowCorrectness ==
    pc = "idle" =>
        /\ (engine = "moment" /\ moment.window > 0 /\ moment.decay = Nil
              /\ Len(hist) > moment.window)
               => MomentMatches(LastW(hist, moment.window))
        /\ (engine = "joint" /\ joint.window > 0 /\ joint.decay = Nil
              /\ Len(hist) > joint.window)
               => JointMatches(LastW(hist, joint.window),
                               NonZero(TrackedTuples(joint.tuples)))

Scenario ==
    /\ engine = "moment"
    /\ momentConfig = [Sums |-> {1, 2, 3, 4}, Window |-> 0, Decay |-> Nil]
    /\ hist = <<1, 2, 3, 4>>

\* C3 as stated: after the pushes 1, 2, 3, 4 the mean is 2.5, the 2nd sum 5,
\* the 3rd sum 0 and the 4th sum 16.25.
C3_ScenarioAsStated ==
    Scenario => /\ UnsafeMean(moment) = [val |-> <<5, 2>>, err |-> OK]
                /\ UnsafeSum(moment, 2) = [val |-> <<5, 1>>, err |-> OK]
                /\ UnsafeSum(moment, 3) = [val |-> <<0, 1>>, err |-> OK]
                /\ UnsafeSum(moment, 4) = [val |-> <<65, 4>>, err |-> OK]

\* C3 as amended: after the pushes 1, 2, 3, 4 the mean is 2.5, the 2nd sum 5,
\* the 3rd sum 0 and the 4th sum 10.25.
C3_Scenario ==
    Scenario => /\ UnsafeMean(moment) = [val |-> <<5, 2>>, err |-> OK]
                /\ UnsafeSum(moment, 2) = [val |-> <<5, 1>>, err |-> OK]
                /\ UnsafeSum(moment, 3) = [val |-> <<0, 1>>, err |-> OK]
                /\ UnsafeSum(moment, 4) = [val |-> <<41, 4>>, err |-> OK]

C3_Witness == Scenario /\ moment.count = 4 /\ ret = Done("Push", OK)

(***************************************************************************)
(* C4  Add/remove symmetry.                                                *)
(***************************************************************************)
\* C4: in every reachable state, inserting any observation and then removing
\* it gives back the count, the mean(s) and every sum, with or without decay.
C4_AddRemoveSymmetry ==
    /\ engine = "moment" =>
           \A x \in Values :
               LET s == remove(insert(moment, QInt(x)), QInt(x))
               IN  /\ s.count = moment.count
                   /\ s.mean = moment.mean
                   /\ s.sums = moment.sums
    /\ engine = "joint" =>
           \A xs \in JointObs :
               LET s == jointRemove(jointInsert(joint, QSeq(xs)), QSeq(xs))
               IN  /\ s.count = joint.count
                   /\ s.means = joint.means
                   /\ s.sums = joint.sums

(***************************************************************************)
(* C5  Zero reset.                                                         *)
(***************************************************************************)
\* C5: in every state, also inside a Push right after the eviction, a count
\* of 0 comes with a mean of 0 and with every sum and scratch sum 0.
C5_ZeroReset ==
    /\ moment.count = 0 => moment.mean = QZero /\ AllZero(moment.sums)
    /\ joint.count = 0 =>
           AllZero(joint.means) /\ AllZero(joint.sums) /\ AllZero(joint.newSums)

\* inside a Push, after the eviction emptied a window of size 1
C5_Witness ==
    /\ pc = "evicted"
    /\ \/ engine = "moment" /\ moment.window = 1 /\ moment.count = 0
       \/ engine = "joint" /\ joint.window = 1 /\ joint.count = 0

(***************************************************************************)
(* C6  Decay bootstrap.                                                    *)
(***************************************************************************)
\* C6: every step that takes the count of a decayed engine from 0 to 1 leaves
\* the mean(s) equal to the pushed observation and every sum 0.
C6_DecayBootstrap ==
    [][ /\ (engine = "moment" /\ moment.decay # Nil
              /\ moment.count = 0 /\ moment'.count = 1)
               => moment'.mean = QInt(Last(hist')) /\ AllZero(moment'.sums)
        /\ (engine = "joint" /\ joint.decay # Nil
              /\ joint.count = 0 /\ joint'.count = 1)
               => joint'.means = QSeq(Last(hist')) /\ AllZero(joint'.sums)
      ]_vars

\* a decayed window-1 engine after a push that evicted a different value
C6_Witness ==
    /\ engine = "moment" /\ pc = "idle"
    /\ moment.decay # Nil /\ moment.window = 1 /\ moment.count = 1
    /\ Len(hist) >= 2 /\ hist[Len(hist) - 1] # Last(hist)
    /\ moment.mean = QInt(Last(hist))

(***************************************************************************)
(* C7  "no values seen yet".                                               *)
(***************************************************************************)
\* C7: for every argument, Mean and Sum return "no values seen yet" exactly
\* when count = 0, and between two calls count = 0 exactly when nothing was
\* pushed since construction or the last Clear.
C7_NoValuesSeen ==
    /\ UnsafeMean(moment).err = ErrorNoValuesSeen <=> moment.count = 0
    /\ \A k \in SumOrders :
           UnsafeSum(moment, k).err = ErrorNoValuesSeen <=> moment.count = 0
    /\ \A i \in MeanIndices :
           jointUnsafeMean(joint, i).err = ErrorNoValuesSeen <=> joint.count = 0
    /\ \A t \in SumTuples :
           jointUnsafeSum(joint, t).err = ErrorNoValuesSeen <=> joint.count = 0
    /\ (pc = "idle" /\ engine = "moment") => (moment.count = 0 <=> hist = <<>>)
    /\ (pc = "idle" /\ engine = "joint") => (joint.count = 0 <=> hist = <<>>)

\* a Clear that discarded consumed values: the queries fail again
C7_Witness ==
    /\ engine = "moment" /\ ret.op = "Clear" /\ dropped > 0
    /\ UnsafeSum(moment, 2).err = ErrorNoValuesSeen

(***************************************************************************)
(* C8  Untracked orders.                                                   *)
(***************************************************************************)
\* C8 as stated: with count > 0, Sum(k) fails with the untracked-order error
\* when k <= 0, when k >= the largest requested order, or when k was not
\* requested.
C8_OnlyRequestedOrders ==
    (engine = "moment" /\ moment.count > 0) =>
        \A k \in SumOrders :
            (k <= 0 \/ k >= SetMax(momentConfig.Sums) \/ k \notin momentConfig.Sums)
                => UnsafeSum(moment, k).err = ErrorNotTracked

\* C8 as amended: with count > 0, Sum(k) fails with the untracked-order error
\* exactly when k <= 0 or k > the largest requested order; for every order
\* from 1 to the largest requested one it returns sums[k].
C8_TrackedOrders ==
    (engine = "moment" /\ moment.count > 0) =>
        \A k \in SumOrders :
            IF k <= 0 \/ k > SetMax(momentConfig.Sums)
            THEN UnsafeSum(moment, k).err = ErrorNotTracked
            ELSE UnsafeSum(moment, k) = [val |-> moment.sums[k], err |-> OK]

\* orders 1 and 3 requested, values consumed: Sum(2) and Sum(3) return values
C8_Witness ==
    /\ engine = "moment" /\ moment.count > 0
    /\ momentConfig.Sums = {1, 3}
    /\ UnsafeSum(moment, 2).err = OK
    /\ UnsafeSum(moment, 3).err = OK

(***************************************************************************)
(* C9  Joint Push with the wrong number of values.                         *)
(***************************************************************************)
\* C9: between two calls, a joint Push with a wrong number of values returns
\* the arity error and the engine it leaves is the engine it found, and every
\* step whose call returned the arity error left count, means, sums, scratch
\* sums and buffer as they were.
C9_ArityError ==
    [][ /\ pc = "idle" =>
               \A xs \in BadArity :
                   /\ jointUnsafePushBegin(joint, QSeq(xs)).err = ErrorArity
                   /\ jointUnsafePushBegin(joint, QSeq(xs)).core = joint
        /\ (ret' # ret /\ ret'.err = ErrorArity) => joint' = joint
      ]_vars

\* an arity error returned by an engine whose window is full
C9_Witness ==
    /\ engine = "joint" /\ ret = Done("Push", ErrorArity)
    /\ joint.window > 0 /\ Len(joint.queue) = joint.window

(***************************************************************************)
(* C10  Clear.                                                             *)
(***************************************************************************)
\* C10: Clear returns no error and the engine it leaves is the engine NewCore
\* builds from the same configuration, with an empty buffer.
C10_ClearIsFresh ==
    ret.op = "Clear" =>
        /\ ret.err = OK
        /\ engine = "moment" => moment = NewCore(momentConfig)
        /\ engine = "joint" => joint = jointNewCore(jointConfig)

\* a Clear that found the window full
C10_Witness ==
    /\ ret.op = "Clear" /\ dropped > 0
    /\ \/ engine = "moment" /\ dropped = moment.window
       \/ engine = "joint" /\ dropped = joint.window

(***************************************************************************)
(* C11  Count.                                                             *)
(***************************************************************************)
\* C11: between two calls, Count() is the number of successful pushes since
\* construction or the last Clear, evicted values included.
C11_CountIsGlobal ==
    pc = "idle" =>
        /\ engine = "moment" => UnsafeCount(moment) = Len(hist)
        /\ engine = "joint" => jointUnsafeCount(joint) = Len(hist)

(***************************************************************************)
(* C12  Window count and buffer.                                           *)
(***************************************************************************)
\* the core of the engine in use
Core == IF engine = "moment" THEN moment ELSE joint

\* observations as the queue stores them
Stored(h) ==
    [i \in DOMAIN h |-> IF engine = "moment" THEN QInt(h[i]) ELSE QSeq(h[i])]

Min(a, b) == IF a < b THEN a ELSE b

\* count and queue agree with the pushes since construction or the last Clear
C12_BufferAgrees ==
    (pc = "idle" /\ Core.window > 0) =>
        /\ Core.count <= Core.window
        /\ Core.count = Min(Len(hist), Core.window)
        /\ Len(Core.queue) = Core.count
        /\ Core.queue = Stored(LastW(hist, Core.window))

\* a change of the queue is a pop from a non-empty queue, a put into a queue
\* that is not full, or the reset by Clear
C12_QueueStep ==
    (Core.window > 0 /\ Core'.queue # Core.queue) =>
        \/ Core.queue # <<>> /\ Core'.queue = Tail(Core.queue)
        \/ /\ Len(Core.queue) < Core.window
           /\ Len(Core'.queue) = Len(Core.queue) + 1
           /\ SubSeq(Core'.queue, 1, Len(Core.queue)) = Core.queue
        \/ Core'.queue = <<>>

\* C12: with Window W > 0, after every Push and Clear the count is at most W
\* and is min(pushes since construction or Clear, W), the buffer holds exactly
\* the last count observations in push order, and no step pops from an empty
\* buffer or puts into a full one.
C12_WindowBuffer == [][C12_BufferAgrees' /\ C12_QueueStep]_vars

\* a windowed engine between calls, after more pushes than the window holds
C12_Witness ==
    /\ pc = "idle"
    /\ Core.window > 0
    /\ Len(hist) > Core.window
    /\ Len(Core.queue) = Core.window

(***************************************************************************)
(* C13  Eviction ordering.                                                 *)
(***************************************************************************)
\* the observation pushed W pushes before the one being pushed, as stored
OldestInWindow == Stored(hist)[Len(hist) - Core.window + 1]

\* steps (1) and (2): the oldest observation is popped and exactly it is removed
C13_EvictStep ==
    (pc = "idle" /\ pc' = "evicted") =>
        /\ Core.window > 0 /\ Len(Core.queue) = Core.window
        /\ Head(Core.queue) = OldestInWindow
        /\ engine = "moment" => moment' = remove(Get(moment), OldestInWindow)
        /\ engine = "joint" => joint' = jointRemove(Get(joint), OldestInWindow)
        /\ Core'.queue = Tail(Core.queue)
        /\ Core'.count = Core.count - 1
        /\ hist' = hist

\* steps (3) and (4): the new value is enqueued and added after the eviction
C13_InsertStep ==
    (pc = "evicted" /\ pc' = "idle") =>
        /\ Len(Core.queue) = Core.window - 1
        /\ Core'.queue = Append(Core.queue, Last(Stored(hist')))
        /\ hist' = Append(hist, arg)
        /\ engine = "moment" =>
              moment' = insert(Put(moment, QInt(arg)), QInt(arg))
        /\ engine = "joint" =>
              joint' = jointInsert(Put(joint, QSeq(arg)), QSeq(arg))
        /\ Core'.count = Core.count + 1

\* a successful Push into a buffer that is not full removes nothing
C13_NoEviction ==
    (/\ pc = "idle"
     /\ ~(Core.window > 0 /\ Len(Core.queue) = Core.window)
     /\ Len(hist') = Len(hist) + 1) =>
        /\ pc' = "idle"
        /\ Core'.count = Core.count + 1
        /\ Core.window > 0 => Core'.queue = Append(Core.queue, Last(Stored(hist')))
        /\ engine = "moment" /\ Core.window > 0 =>
              moment' = insert(Put(moment, Last(Stored(hist'))), Last(Stored(hist')))
        /\ engine = "joint" /\ Core.window > 0 =>
              joint' = jointInsert(Put(joint, Last(Stored(hist'))), Last(Stored(hist')))

\* C13: a Push into a full buffer pops the oldest observation, removes exactly
\* that observation (the one pushed W pushes earlier), then enqueues the new
\* value and adds it; a Push into a buffer that is not full runs no remove.
C13_EvictionOrdering == [][C13_EvictStep /\ C13_InsertStep /\ C13_NoEviction]_vars

\* an eviction in a window of two whose oldest observation differs from the
\* other one in the window and from the incoming one
C13_Witness ==
    /\ pc = "evicted"
    /\ Core.window = 2
    /\ hist[Len(hist) - 1] # hist[Len(hist)]
    /\ hist[Len(hist) - 1] # arg

(***************************************************************************)
(* C17  Overlapping targets.                                               *)
(***************************************************************************)
\* one whole joint Push
jointPushWhole(c, xs) ==
    IF jointUnsafePushBegin(c, xs).pc = "evicted"
    THEN jointUnsafePushEnd(jointUnsafePushBegin(c, xs).core, xs)
    ELSE jointUnsafePushBegin(c, xs).core

\* the joint core after the pushes h, starting from c
RECURSIVE jointReplay(_, _)
jointReplay(c, h) ==
    IF h = <<>> THEN c ELSE jointReplay(jointPushWhole(c, QSeq(Head(h))), Tail(h))

Elements(seq) == {seq[i] : i \in DOMAIN seq}

\* the configured target lists that are part of the targets of the engine in use
SubConfigs ==
    {A \in JointSums : Elements(A) \subseteq Elements(jointConfig.Sums)
                       /\ A # jointConfig.Sums}

\* C17: an engine with targets A and an engine with targets A \cup B that see the
\* same pushes, evictions included, hold the same means and the same value for
\* every sum both track.
C17_OverlapCompose ==
    (engine = "joint" /\ pc = "idle") =>
        \A A \in SubConfigs :
            LET other == jointReplay(jointNewCore([jointConfig EXCEPT !.Sums = A]), hist)
            IN  /\ other.means = joint.means
                /\ other.count = joint.count
                /\ \A t \in TrackedTuples(A) :
                       other.sums[hash(t)] = joint.sums[hash(t)]

(***************************************************************************)
(* C18  Dependency closure.                                                *)
(***************************************************************************)
\* exponent tuples of two variables handed to Sum
TupleBox == (0..3) \X (0..3)

\* the tuples b with 0 <= b <= t componentwise for some configured target t
BelowTargets(targets) ==
    {b \in TupleBox :
        \E i \in DOMAIN targets : \A v \in DOMAIN b : b[v] <= targets[i][v]}

\* C18: the keys of sums and of the scratch sums are exactly the tuples below
\* some configured target, in every state of every Push and Clear; once a value
\* is held, Sum succeeds for exactly those tuples and fails with "not a tracked
\* power sum" for every other one.
C18_DependencyClosure ==
    engine = "joint" =>
        /\ DOMAIN joint.sums = {hash(b) : b \in BelowTargets(jointConfig.Sums)}
        /\ DOMAIN joint.newSums = DOMAIN joint.sums
        /\ joint.count > 0 =>
              \A b \in TupleBox :
                  jointUnsafeSum(joint, b).err =
                      IF b \in BelowTargets(jointConfig.Sums) THEN OK
                      ELSE ErrorNotTracked

\* a full window between the eviction and the insertion, two targets configured
C18_Witness ==
    /\ engine = "joint"
    /\ pc = "evicted"
    /\ joint.count > 0
    /\ Len(jointConfig.Sums) > 1

(***************************************************************************)
(* C20  Scratch, then commit.                                              *)
(***************************************************************************)
\* the joint core as a pass finds it: count and means already updated
AtPass == [joint EXCEPT !.count = joint'.count, !.means = joint'.means,
                        !.queue = joint'.queue]

\* the core with its first k configured tuples only
FirstTuples(c, k) == [c EXCEPT !.tuples = SubSeq(c.tuples, 1, k)]

\* the observation leaving in an eviction step, and its delta
Evicted == Head(joint.queue)
EvictedDelta == [i \in DOMAIN joint.means |-> QSub(Evicted[i], joint'.means[i])]

\* the observation entering in an insertion step, its delta and its weight
Inserted == Last(Stored(hist'))
InsertedDelta == [i \in DOMAIN joint.means |-> QSub(Inserted[i], joint.means[i])]
InsertedWeight ==
    IF joint.decay = Nil THEN QInt(joint'.count)
    ELSE IF joint'.count = 1 THEN QOne ELSE joint.decay

\* the cross terms of the passes: a below a configured tuple, 0 < b < a
CrossTerms ==
    {ab \in TrackedTuples(joint.tuples) \X TupleBox :
        /\ \A v \in 1..2 : ab[2][v] <= ab[1][v]
        /\ abs(ab[2]) > 0
        /\ ab[2] # ab[1]}

\* the eviction pass: nothing is committed before the last configured tuple is
\* done, and the sums of the cross terms are read as they were before the pass
C20_EvictionPass ==
    (engine = "joint" /\ pc = "idle" /\ pc' = "evicted" /\ joint'.count > 0) =>
        /\ \A k \in 1..(Len(joint.tuples) - 1) :
               jointRemoveTuples(FirstTuples(AtPass, k), 1, QInt(joint'.count),
                                 EvictedDelta).sums = joint.sums
        /\ \A k \in 1..Len(joint.tuples) : \A ab \in CrossTerms :
               (\A v \in 1..2 : ab[1][v] <= joint.tuples[k][v]) =>
                   jointTuple("remove",
                              jointRemoveTuples(FirstTuples(AtPass, k - 1), 1,
                                                QInt(joint'.count), EvictedDelta),
                              joint.tuples[k], FALSE, QInt(joint'.count),
                              EvictedDelta).newSums[hash(sub(ab[1], ab[2]))]
                       = joint.sums[hash(sub(ab[1], ab[2]))]

\* the insertion pass: nothing is committed before the last configured tuple
C20_InsertionPass ==
    (engine = "joint" /\ pc' = "idle" /\ Len(hist') = Len(hist) + 1) =>
        \A k \in 1..Len(joint.tuples) :
            jointAddTuples(IF joint.decay = Nil THEN "add" ELSE "addDecay",
                           FirstTuples(AtPass, k), 1, InsertedWeight,
                           InsertedDelta).sums = joint.sums

\* C20: in the insertion pass and in the eviction pass of a joint Push, no
\* committed sum is written before every configured tuple has been computed
\* into the scratch sums, and every sum read for a cross term has the value
\* committed before the pass.
C20_ScratchThenCommit == [][C20_EvictionPass /\ C20_InsertionPass]_vars

(***************************************************************************)
(* Caller threads on one core.  Push, Clear, Sum, Mean and Count lock the  *)
(* core's sync.RWMutex themselves; Correlation.Value brackets its three    *)
(* Sum calls with RLock/RUnlock of the same mutex; Kurtosis.Value makes    *)
(* its three reads one after the other.  A call is a list of instructions, *)
(* a thread runs one call, one instruction per step.                       *)
(*                                                                         *)
(* sync.RWMutex: Lock first excludes the other writers and announces the   *)
(* writer (from then on RLock blocks), then waits until the readers that   *)
(* hold the lock have left; RLock is not reentrant.                        *)
(***************************************************************************)
Threads == {"w1", "w2", "r1", "r2"}

WriterCalls ==
    {[op |-> "Push", x |-> 1], [op |-> "Push", x |-> 2], [op |-> "Clear", x |-> 0]}

MetricCalls ==
    IF engine = "moment" THEN {"Kurtosis.Value", "Std.Value"}
    ELSE {"Correlation.Value", "EWMCov.Value"}

CoreQueries == {"Sum", "Mean", "Count"}

\* the configurations of the cores the threads share: the orders Kurtosis
\* needs, the tuples Correlation needs, a window of one value
SharedMomentConfig == [Sums |-> {2, 4}, Window |-> 1, Decay |-> Nil]
SharedJointConfig ==
    [Sums |-> <<(<<1, 1>>), (<<2, 0>>), (<<0, 2>>)>>, Window |-> 1, Decay |-> Nil,
     Vars |-> 2]

\* the observation a Push of x hands to the core in use
Obs(x) == IF engine = "moment" THEN x ELSE <<x, 3 - x>>

\* Sum, Mean, Count: RLock, the Unsafe query, the deferred RUnlock
LockedRead == <<"RLock", "Read", "RUnlock">>

\* Moment.Value and WindowCount: one read of the core under its read lock
MomentValue == <<"RLock", "Read", "RUnlock">>

\* Push and Clear without the write lock
ProgUnlockedWriters(op) ==
    CASE op = "Push" -> <<"Push", "PushEnd">>
      [] op = "Clear" -> <<"Clear">>
      [] op \in {"Sum", "Mean", "Count", "EWMCov.Value"} -> LockedRead
      [] op = "Std.Value" -> MomentValue
      [] op = "Correlation.Value" ->
            <<"RLock">> \o LockedRead \o LockedRead \o LockedRead \o <<"RUnlock">>
      [] op = "Kurtosis.Value" -> MomentValue \o MomentValue \o MomentValue

\* the instructions of a call; "PushEnd" is skipped when nothing is evicted
Prog(op) ==
    CASE op = "Push" -> <<"Lock", "LockWait", "Push", "PushEnd", "Unlock">>
      [] op = "Clear" -> <<"Lock", "LockWait", "Clear", "Unlock">>
      [] op \in {"Sum", "Mean", "Count", "EWMCov.Value"} -> LockedRead
      [] op = "Std.Value" -> MomentValue
      [] op = "Correlation.Value" ->
            <<"RLock">> \o LockedRead \o LockedRead \o LockedRead \o <<"RUnlock">>
      [] op = "Kurtosis.Value" -> MomentValue \o MomentValue \o MomentValue

\* where a call goes on when a read returned an error: Correlation.Value to
\* its deferred RUnlock, the others to their return
Exit(op) == IF op = "Correlation.Value" THEN Len(Prog(op)) ELSE Len(Prog(op)) + 1

\* what the reads of a call ask the core for, in order
Reads(op) ==
    CASE op = "Sum" ->
            <<[q |-> "Sum", a |-> IF engine = "moment" THEN 2 ELSE <<1, 1>>]>>
      [] op = "Mean" -> <<[q |-> "Mean", a |-> 0]>>
      [] op = "Count" -> <<[q |-> "Count", a |-> 0]>>
      [] op = "EWMCov.Value" -> <<[q |-> "Sum", a |-> <<1, 1>>]>>
      [] op = "Std.Value" -> <<[q |-> "Sum", a |-> 2]>>
      [] op = "Correlation.Value" ->
            <<[q |-> "Sum", a |-> <<1, 1>>], [q |-> "Sum", a |-> <<2, 0>>],
              [q |-> "Sum", a |-> <<0, 2>>]>>
      [] op = "Kurtosis.Value" ->
            <<[q |-> "Count", a |-> 0], [q |-> "Sum", a |-> 2], [q |-> "Sum", a |-> 4]>>

\* UnsafeSum, UnsafeMean and UnsafeCount of the core in use
Query(r) ==
    IF engine = "moment"
    THEN CASE r.q = "Sum" -> UnsafeSum(moment, r.a)
           [] r.q = "Mean" -> UnsafeMean(moment)
           [] r.q = "Count" -> [val |-> QInt(UnsafeCount(moment)), err |-> OK]
    ELSE CASE r.q = "Sum" -> jointUnsafeSum(joint, r.a)
           [] r.q = "Mean" -> jointUnsafeMean(joint, r.a)
           [] r.q = "Count" -> [val |-> QInt(jointUnsafeCount(joint)), err |-> OK]

\* a query that counts itself as a value seen
AfterQueryCounts(c, r) == [c EXCEPT !.count = c.count + 1]

\* the core after UnsafeSum, UnsafeMean or UnsafeCount: they assign no field
AfterQuery(c, r) == c

\* when the lock calls of sync.RWMutex go through
CanLock == mux.writer = NoThread
CanLockWait == mux.readers = 0
CanRLock == mux.writer = NoThread

Instr(t) ==
    IF threads[t].ip > Len(Prog(threads[t].op)) THEN "done"
    ELSE Prog(threads[t].op)[threads[t].ip]

Goto(t, ip) == [threads EXCEPT ![t].ip = ip]

\* c.mux.Lock(), first half: exclude the other writers, announce the writer
Lock(t) ==
    /\ Instr(t) = "Lock"
    /\ CanLock
    /\ mux' = [mux EXCEPT !.writer = t]
    /\ threads' = Goto(t, threads[t].ip + 1)
    /\ UNCHANGED <<quantileVars, coreSet, engine, momentConfig, moment, jointConfig, joint, pc, arg, ret,
                   hist, dropped, writes>>

\* c.mux.Lock(), second half: wait for the readers holding the lock to leave
LockWait(t) ==
    /\ Instr(t) = "LockWait"
    /\ CanLockWait
    /\ mux' = [mux EXCEPT !.held = TRUE]
    /\ threads' = Goto(t, threads[t].ip + 1)
    /\ UNCHANGED <<quantileVars, coreSet, engine, momentConfig, moment, jointConfig, joint, pc, arg, ret,
                   hist, dropped, writes>>

\* UnsafePush up to the end of the eviction, or to its end when nothing is evicted
CorePush(t) ==
    /\ Instr(t) = "Push"
    /\ moment' = IF engine = "moment"
                 THEN UnsafePushBegin(moment, QInt(threads[t].x)).core ELSE moment
    /\ joint' = IF engine = "joint"
                THEN jointUnsafePushBegin(joint, QSeq(Obs(threads[t].x))).core ELSE joint
    /\ pc' = IF engine = "moment"
             THEN UnsafePushBegin(moment, QInt(threads[t].x)).pc
             ELSE jointUnsafePushBegin(joint, QSeq(Obs(threads[t].x))).pc
    /\ arg' = IF pc' = "evicted" THEN Obs(threads[t].x) ELSE Nil
    /\ hist' = IF pc' = "evicted" THEN hist ELSE Append(hist, Obs(threads[t].x))
    /\ threads' = Goto(t, IF pc' = "evicted" THEN threads[t].ip + 1
                          ELSE threads[t].ip + 2)
    /\ writes' = writes + 1
    /\ UNCHANGED <<quantileVars, coreSet, engine, momentConfig, jointConfig, ret, dropped, mux>>

\* the rest of UnsafePush after an eviction
CorePushEnd(t) ==
    /\ Instr(t) = "PushEnd"
    /\ moment' = IF engine = "moment"
                 THEN UnsafePushEnd(moment, QInt(threads[t].x)) ELSE moment
    /\ joint' = IF engine = "joint"
                THEN jointUnsafePushEnd(joint, QSeq(Obs(threads[t].x))) ELSE joint
    /\ pc' = "idle"
    /\ arg' = Nil
    /\ hist' = Append(hist, Obs(threads[t].x))
    /\ threads' = Goto(t, threads[t].ip + 1)
    /\ writes' = writes + 1
    /\ UNCHANGED <<quantileVars, coreSet, engine, momentConfig, jointConfig, ret, dropped, mux>>

\* UnsafeClear
CoreClear(t) ==
    /\ Instr(t) = "Clear"
    /\ moment' = IF engine = "moment" THEN UnsafeClear(moment) ELSE moment
    /\ joint' = IF engine = "joint" THEN jointUnsafeClear(joint) ELSE joint
    /\ hist' = <<>>
    /\ threads' = Goto(t, threads[t].ip + 1)
    /\ writes' = IF moment' = moment /\ joint' = joint THEN writes ELSE writes + 1
    /\ UNCHANGED <<quantileVars, coreSet, engine, momentConfig, jointConfig, pc, arg, ret, dropped, mux>>

\* defer c.mux.Unlock()
Unlock(t) ==
    /\ Instr(t) = "Unlock"
    /\ mux' = [mux EXCEPT !.writer = NoThread, !.held = FALSE]
    /\ threads' = Goto(t, threads[t].ip + 1)
    /\ UNCHANGED <<quantileVars, coreSet, engine, momentConfig, moment, jointConfig, joint, pc, arg, ret,
                   hist, dropped, writes>>

\* c.mux.RLock(): blocks while a writer holds the lock or waits for it
RLock(t) ==
    /\ Instr(t) = "RLock"
    /\ CanRLock
    /\ mux' = [mux EXCEPT !.readers = mux.readers + 1]
    /\ threads' = Goto(t, threads[t].ip + 1)
    /\ UNCHANGED <<quantileVars, coreSet, engine, momentConfig, moment, jointConfig, joint, pc, arg, ret,
                   hist, dropped, writes>>

\* one of UnsafeSum, UnsafeMean, UnsafeCount; the thread keeps the error it got,
\* and (ghost) how many write steps had run and where a Push stood
Read(t) ==
    /\ Instr(t) = "Read"
    /\ moment' = AfterQuery(moment, Reads(threads[t].op)[Len(threads[t].seen) + 1])
    /\ joint' = AfterQuery(joint, Reads(threads[t].op)[Len(threads[t].seen) + 1])
    /\ threads' =
          [threads EXCEPT
              ![t].ip = threads[t].ip + 1,
              ![t].seen =
                  Append(threads[t].seen,
                         [at  |-> writes,
                          pc  |-> pc,
                          err |-> Query(Reads(threads[t].op)[Len(threads[t].seen) + 1]).err])]
    /\ UNCHANGED <<quantileVars, coreSet, engine, momentConfig, jointConfig, pc, arg, ret, hist, dropped,
                   mux, writes>>

\* c.mux.RUnlock(), deferred in Sum, Mean, Count and Correlation.Value; the
\* caller of a read that failed returns
RUnlock(t) ==
    /\ Instr(t) = "RUnlock"
    /\ mux' = [mux EXCEPT !.readers = mux.readers - 1]
    /\ threads' =
          Goto(t, IF /\ threads[t].seen # <<>>
                     /\ Last(threads[t].seen).err # OK
                     /\ threads[t].ip < Exit(threads[t].op)
                  THEN Exit(threads[t].op)
                  ELSE threads[t].ip + 1)
    /\ UNCHANGED <<quantileVars, coreSet, engine, momentConfig, moment, jointConfig, joint, pc, arg, ret,
                   hist, dropped, writes>>

ThreadStep(t) ==
    \/ Lock(t)
    \/ LockWait(t)
    \/ CorePush(t)
    \/ CorePushEnd(t)
    \/ CoreClear(t)
    \/ Unlock(t)
    \/ RLock(t)
    \/ Read(t)
    \/ RUnlock(t)

Start(call) == [op |-> call.op, x |-> call.x, ip |-> 1, seen |-> <<>>]

LockInit ==
    /\ engine \in {"moment", "joint"}
    /\ momentConfig = IF engine = "moment" THEN SharedMomentConfig ELSE DefaultMomentConfig
    /\ jointConfig = IF engine = "joint" THEN SharedJointConfig ELSE DefaultJointConfig
    /\ moment = NewCore(momentConfig)
    /\ joint = jointNewCore(jointConfig)
    /\ pc = "idle"
    /\ arg = Nil
    /\ ret = Done("NewCore", OK)
    /\ hist = <<>>
    /\ dropped = 0
    /\ mux = Unlocked
    /\ threads \in [w1 : {Start(c) : c \in WriterCalls},
                    w2 : {Start(c) : c \in WriterCalls},
                    r1 : {Start([op |-> o, x |-> 0]) : o \in MetricCalls},
                    r2 : {Start([op |-> o, x |-> 0]) : o \in CoreQueries}]
    /\ writes = 0
    /\ median = NewHeapMedian(0)
    /\ tree = NilNode
    /\ bag = <<>>
    /\ coreSet = TRUE

LockNext == \E t \in Threads : ThreadStep(t)

\* every thread that can take a step is scheduled
LockSpec == LockInit /\ [][LockNext]_vars /\ \A t \in Threads : WF_vars(ThreadStep(t))

Returned(t) == Instr(t) = "done"

\* the thread is inside a lock call that does not go through
Blocked(t) ==
    \/ Instr(t) = "Lock" /\ ~CanLock
    \/ Instr(t) = "LockWait" /\ ~CanLockWait
    \/ Instr(t) = "RLock" /\ ~CanRLock

(***************************************************************************)
(* C14  No operation blocks indefinitely.                                  *)
(***************************************************************************)
\* C14: every call eventually returns: as long as some call has not returned,
\* some thread can take a step.
C14_NoOperationBlocks ==
    (\A t \in Threads : Returned(t))
        \/ (\E t \in Threads : ~Returned(t) /\ ~Blocked(t))

(***************************************************************************)
(* C15  Atomic multi-sum reads.                                            *)
(***************************************************************************)
\* the reads of thread t saw one and the same state of the core: no step of
\* a Push or Clear ran between two of them
OneState(t) ==
    \A i, j \in DOMAIN threads[t].seen : threads[t].seen[i].at = threads[t].seen[j].at

\* C15: all the quantities one Value() call of Correlation or Kurtosis
\* combines are read from one engine state.
C15_AtomicReads ==
    \A t \in Threads :
        threads[t].op \in {"Correlation.Value", "Kurtosis.Value"} => OneState(t)

(***************************************************************************)
(* C16  Writer exclusion.                                                  *)
(***************************************************************************)
\* thread t is in the body of Push or Clear, up to its deferred Unlock
InBody(t) == Instr(t) \in {"Push", "PushEnd", "Clear", "Unlock"}

\* thread t is in the body of Sum, Mean or Count, up to its deferred RUnlock
InQuery(t) == threads[t].op \in CoreQueries /\ Instr(t) \in {"Read", "RUnlock"}

\* C16: Push and Clear hold the exclusive lock for their whole body and Sum,
\* Mean and Count hold the shared lock for theirs; two bodies of Push or Clear
\* never overlap, and no Sum, Mean or Count runs or has read while a Push
\* stands between its eviction and its insertion.
C16_WriterExclusion ==
    /\ \A t \in Threads :
           InBody(t) =>
               /\ mux.held /\ mux.writer = t /\ mux.readers = 0
               /\ \A u \in Threads \ {t} : ~InBody(u) /\ ~InQuery(u)
    /\ \A t \in Threads :
           InQuery(t) => mux.readers > 0 /\ ~mux.held /\ pc = "idle"
    /\ \A t \in Threads :
           threads[t].op \in CoreQueries =>
               \A i \in DOMAIN threads[t].seen : threads[t].seen[i].pc = "idle"
    /\ pc = "evicted" => \E t \in Threads : Instr(t) = "PushEnd"

\* the second Push stands between its eviction and its insertion while a Sum,
\* Mean or Count is blocked in its RLock
C16_Witness ==
    /\ pc = "evicted"
    /\ \E t \in Threads : InBody(t) /\ Instr(t) = "PushEnd"
    /\ \E t \in Threads : threads[t].op \in CoreQueries /\ Blocked(t)

(***************************************************************************)
(* C19  Read-only queries.                                                 *)
(***************************************************************************)
QueryCalls ==
    CoreQueries \cup {"EWMCov.Value", "Correlation.Value", "Std.Value", "Kurtosis.Value"}

\* C19: no step of a Sum, Mean, Count or of a metric's Value changes count,
\* means, sums, scratch sums or the window buffer, whether the call returns a
\* value or an error.
C19_ReadOnlyQueries ==
    [][\A t \in Threads :
           (threads[t].op \in QueryCalls /\ threads'[t] # threads[t]) =>
               moment' = moment /\ joint' = joint]_vars

\* a metric's Value has returned a value and a Sum, Mean or Count an error
C19_Witness ==
    /\ \E t \in Threads :
           /\ threads[t].op \in QueryCalls \ CoreQueries
           /\ Returned(t)
           /\ Len(threads[t].seen) = Len(Reads(threads[t].op))
           /\ Last(threads[t].seen).err = OK
    /\ \E t \in Threads :
           /\ threads[t].op \in CoreQueries
           /\ Returned(t)
           /\ Last(threads[t].seen).err # OK


(***************************************************************************)
(* The quantile structures: a run drives one median tracker, or one tree   *)
(* through the methods of its root node.                                   *)
(***************************************************************************)
\* ghost: the sorted sequence bag with one more occurrence of val
RECURSIVE bagAdd(_, _)
bagAdd(b, val) ==
    IF b = <<>> THEN <<val>>
    ELSE IF val <= Head(b) THEN <<val>> \o b
    ELSE <<Head(b)>> \o bagAdd(Tail(b), val)

\* ghost: the sorted sequence bag with one occurrence of val less, if it has one
RECURSIVE bagRemove(_, _)
bagRemove(b, val) ==
    IF b = <<>> THEN b
    ELSE IF val = Head(b) THEN Tail(b)
    ELSE <<Head(b)>> \o bagRemove(Tail(b), val)

HeapMedianPush(x) ==
    /\ engine = "median"
    /\ ~median.peekedEmpty      \* the panic is not recovered
    /\ Len(hist) < MaxMedianPushes
    /\ median' \in medianPush(median, x)
    /\ hist' = Append(hist, x)
    /\ ret' = [op |-> "Push", err |-> IF median'.peekedEmpty THEN "panic" ELSE OK]
    /\ UNCHANGED <<tree, bag, coreSet, engine, momentConfig, moment, jointConfig, joint,
                   pc, arg, dropped>>
    /\ UNCHANGED lockVars

HeapMedianValue ==
    /\ engine = "median"
    /\ ~median.peekedEmpty
    /\ ret' = [op |-> "Value", val |-> medianValue(median).val,
               err |-> medianValue(median).err]
    /\ UNCHANGED <<quantileVars, coreSet, engine, momentConfig, moment, jointConfig, joint,
                   pc, arg, hist, dropped>>
    /\ UNCHANGED lockVars

NodeAdd(val) ==
    /\ engine = "avl"
    /\ Size(tree) < MaxNodes
    /\ tree' = avlAdd(tree, val)
    /\ bag' = bagAdd(bag, val)
    /\ ret' = [op |-> "add", val |-> val]
    /\ UNCHANGED <<median, coreSet, engine, momentConfig, moment, jointConfig, joint,
                   pc, arg, hist, dropped>>
    /\ UNCHANGED lockVars

NodeRemove(val) ==
    /\ engine = "avl"
    /\ tree' = avlRemove(tree, val)
    /\ bag' = bagRemove(bag, val)
    /\ ret' = [op |-> "remove", val |-> val]
    /\ UNCHANGED <<median, coreSet, engine, momentConfig, moment, jointConfig, joint,
                   pc, arg, hist, dropped>>
    /\ UNCHANGED lockVars

NodeSelect(k) ==
    /\ engine = "avl"
    /\ ret' = [op |-> "Select", k |-> k, node |-> Select(tree, k)]
    /\ UNCHANGED <<quantileVars, coreSet, engine, momentConfig, moment, jointConfig, joint,
                   pc, arg, hist, dropped>>
    /\ UNCHANGED lockVars

NodeRank(val) ==
    /\ engine = "avl"
    /\ ret' = [op |-> "Rank", val |-> val, rank |-> Rank(tree, val)]
    /\ UNCHANGED <<quantileVars, coreSet, engine, momentConfig, moment, jointConfig, joint,
                   pc, arg, hist, dropped>>
    /\ UNCHANGED lockVars

QuantileInit ==
    /\ engine \in {"median", "avl"}
    /\ momentConfig = DefaultMomentConfig
    /\ jointConfig = DefaultJointConfig
    /\ moment = NewCore(momentConfig)
    /\ joint = jointNewCore(jointConfig)
    /\ pc = "idle"
    /\ arg = Nil
    /\ ret = [op |-> "new"]
    /\ hist = <<>>
    /\ dropped = 0
    /\ mux = Unlocked
    /\ threads = <<>>
    /\ writes = 0
    /\ median \in {NewHeapMedian(window) :
                     window \in IF engine = "median" THEN MedianWindows ELSE {0}}
    /\ tree = NilNode
    /\ bag = <<>>
    /\ coreSet = TRUE

QuantileNext ==
    \/ \E x \in MedianValues : HeapMedianPush(x)
    \/ HeapMedianValue
    \/ \E val \in TreeValues : NodeAdd(val)
    \/ \E val \in TreeValues : NodeRemove(val)
    \/ \E k \in -1..MaxNodes : NodeSelect(k)
    \/ \E val \in 0..MaxTreeVal + 1 : NodeRank(val)

QuantileSpec == QuantileInit /\ [][QuantileNext]_vars


(***************************************************************************)
(* C21: HeapMedian.Value returns the median of the last min(n, W) values   *)
(* pushed (of all of them when W = 0): the middle one of an odd number,    *)
(* the average of the two middle ones of an even number; it returns the    *)
(* error "no values seen yet" exactly when nothing has been pushed.        *)
(***************************************************************************)
RECURSIVE Sorted(_)
Sorted(h) == IF h = <<>> THEN <<>> ELSE bagAdd(Sorted(Tail(h)), Head(h))

MedianOf(h) ==
    LET s == Sorted(h)
        n == Len(h)
    IN  IF n % 2 = 1 THEN QInt(s[(n + 1) \div 2])
        ELSE QDiv(QInt(s[n \div 2] + s[n \div 2 + 1]), QInt(2))

C21_MedianOfWindow ==
    (engine = "median" /\ ret.op = "Value") =>
        IF hist = <<>> THEN ret.err = ErrorNoValuesSeen
        ELSE /\ ret.err = OK
             /\ ret.val = MedianOf(LastW(hist, median.window))


(***************************************************************************)
(* C22: after every Push, for every window W >= 0, W = 1 included: the     *)
(* sizes of lowHeap and highHeap differ by at most one, every value of     *)
(* lowHeap is at most every value of highHeap, with W > 0 the two heaps    *)
(* hold min(pushes, W) items and the queue holds exactly those items, and  *)
(* Push never reads the top of an empty lowHeap.                           *)
(***************************************************************************)
Range(q) == {q[i] : i \in DOMAIN q}

C22_SizesBalanced ==
    lowLen(median) - highLen(median) \in {-1, 0, 1}

C22_LowBelowHigh ==
    \A i \in lowIds(median), j \in highIds(median) :
        median.items[i].val <= median.items[j].val

C22_WindowItems ==
    median.window > 0 =>
        /\ lowLen(median) + highLen(median) = Min(Len(hist), median.window)
        /\ Len(median.queue) = lowLen(median) + highLen(median)
        /\ Range(median.queue) = lowIds(median) \cup highIds(median)

C22_HeapInvariants ==
    engine = "median" =>
        /\ C22_SizesBalanced
        /\ C22_LowBelowHigh
        /\ C22_WindowItems
        /\ ~median.peekedEmpty


(***************************************************************************)
(* C23: Rank(val) is the number of nodes of the tree that hold a value     *)
(* strictly less than val, in trees with duplicates too.                   *)
(***************************************************************************)
Below(b, val) == Cardinality({i \in DOMAIN b : b[i] < val})

C23_RankStrictlyLess ==
    (engine = "avl" /\ ret.op = "Rank") => ret.rank = Below(bag, ret.val)

(***************************************************************************)
(* C24: after any sequence of add and remove, every node has subtrees      *)
(* whose heights differ by at most one, a height one more than the larger  *)
(* height of its subtrees (nil has height -1) and a size one more than the *)
(* sizes of its subtrees, and the in-order traversal is non-decreasing.    *)
(***************************************************************************)
RECURSIVE InOrder(_)
InOrder(n) ==
    IF IsNil(n) THEN <<>> ELSE InOrder(n.left) \o <<n.val>> \o InOrder(n.right)

RECURSIVE WellFormed(_)
WellFormed(n) ==
    IsNil(n) \/
        /\ Height(n.left) - Height(n.right) \in {-1, 0, 1}
        /\ n.height = max(Height(n.left), Height(n.right)) + 1
        /\ n.size = Size(n.left) + Size(n.right) + 1
        /\ WellFormed(n.left)
        /\ WellFormed(n.right)

NonDecreasing(q) == \A i \in 1..Len(q) - 1 : q[i] <= q[i + 1]

C24_Structure ==
    engine = "avl" => WellFormed(tree) /\ NonDecreasing(InOrder(tree))

\* a remove has left a tree of height 2 with a value stored twice
C24_Witness ==
    /\ engine = "avl"
    /\ ret.op = "remove"
    /\ Height(tree) = 2
    /\ \E i \in 1..Len(bag) - 1 : bag[i] = bag[i + 1]

(***************************************************************************)
(* C25: the tree is a multiset: add inserts one occurrence, remove takes   *)
(* one occurrence away when there is one and does nothing otherwise,       *)
(* Size() is the number of occurrences stored, Select(k) returns the node  *)
(* of the k-th smallest value (from 0) for 0 <= k < Size() and nil for any *)
(* other k.                                                                *)
(***************************************************************************)
C25_Multiset ==
    engine = "avl" =>
        /\ InOrder(tree) = bag
        /\ Size(tree) = Len(bag)
        /\ ret.op = "Select" =>
               IF 0 <= ret.k /\ ret.k < Size(tree)
               THEN ~IsNil(ret.node) /\ ret.node.val = bag[ret.k + 1]
               ELSE ret.node = NilNode

\* a Select inside the range on a tree that holds a value twice
C25_Witness ==
    /\ engine = "avl"
    /\ ret.op = "Select"
    /\ ret.k = 2
    /\ Len(bag) = MaxNodes - 1
    /\ \E i \in 1..Len(bag) - 1 : bag[i] = bag[i + 1]


(***************************************************************************)
(* The metric wrappers joint.EWMCov and moment.Std: a run drives one       *)
(* wrapper, built without a core, and the core made from its Config().     *)
(* coreSet is cov.core != nil, or s.variance.IsSetCore().                  *)
(***************************************************************************)
ErrorCoreNotSet == "Core is not set"
ErrorEWMCovArity == "EWMCov expected 2 arguments"

\* errors.Wrap: nil stays nil
Wrap(err, msg) == IF err = OK THEN OK ELSE msg

EWMCovDecays == {<<1, 2>>, <<1, 4>>}
EWMCovConfig(decay) ==
    [Sums |-> <<(<<1, 1>>)>>, Window |-> 0, Decay |-> decay, Vars |-> 2]

\* Core.Push of the univariate core, the whole call
PushWhole(c, x) ==
    IF UnsafePushBegin(c, x).pc = "evicted"
    THEN UnsafePushEnd(UnsafePushBegin(c, x).core, x)
    ELSE UnsafePushBegin(c, x).core

\* EWMCov.Push that counts its arguments before it looks for the core
ewmcovPushArityFirst(set, c, xs) ==
    IF Len(xs) # 2 THEN [core |-> c, err |-> ErrorEWMCovArity]
    ELSE IF ~set THEN [core |-> c, err |-> ErrorCoreNotSet]
    ELSE [core |-> jointPushWhole(c, QSeq(xs)),
          err |-> Wrap(jointUnsafePushBegin(c, QSeq(xs)).err, "error pushing to core")]

ewmcovPush(set, c, xs) ==
    IF ~set THEN [core |-> c, err |-> ErrorCoreNotSet]
    ELSE IF Len(xs) # 2 THEN [core |-> c, err |-> ErrorEWMCovArity]
    ELSE [core |-> jointPushWhole(c, QSeq(xs)),
          err |-> Wrap(jointUnsafePushBegin(c, QSeq(xs)).err, "error pushing to core")]

ewmcovValue(set, c) ==
    IF ~set THEN [val |-> QZero, err |-> ErrorCoreNotSet]
    ELSE [val |-> jointUnsafeSum(c, <<1, 1>>).val,
          err |-> Wrap(jointUnsafeSum(c, <<1, 1>>).err, "error retrieving sum")]

ewmcovClear(set, c) == IF set THEN jointUnsafeClear(c) ELSE c

\* s.variance.Push(x) pushes x into the core of the moment
stdPush(set, c, x) ==
    IF ~set THEN [core |-> c, err |-> ErrorCoreNotSet]
    ELSE [core |-> PushWhole(c, QInt(x)),
          err |-> Wrap(UnsafePushBegin(c, QInt(x)).err, "error pushing to core")]

\* the number Value returns with a core is math.Sqrt of the second moment and is
\* left out; the moment has no value while the core has seen nothing
stdValue(set, c) ==
    IF ~set THEN [err |-> ErrorCoreNotSet]
    ELSE [err |-> Wrap(UnsafeSum(c, 2).err, "error retrieving 2nd moment")]

stdClear(set, c) == IF set THEN UnsafeClear(c) ELSE c

SetCore ==
    /\ ~coreSet
    /\ coreSet' = TRUE
    /\ arg' = Nil
    /\ ret' = Done("SetCore", OK)
    /\ UNCHANGED <<quantileVars, engine, momentConfig, moment, jointConfig, joint,
                   pc, hist, dropped>>
    /\ UNCHANGED lockVars

EWMCovPush(xs) ==
    /\ engine = "EWMCov"
    /\ Len(hist) < MaxPushes
    /\ joint' = ewmcovPush(coreSet, joint, xs).core
    /\ arg' = xs
    /\ ret' = Done("Push", ewmcovPush(coreSet, joint, xs).err)
    /\ hist' = IF ret'.err = OK THEN Append(hist, xs) ELSE hist
    /\ UNCHANGED <<quantileVars, coreSet, engine, momentConfig, moment, jointConfig,
                   pc, dropped>>
    /\ UNCHANGED lockVars

EWMCovValue ==
    /\ engine = "EWMCov"
    /\ arg' = Nil
    /\ ret' = [op |-> "Value", val |-> ewmcovValue(coreSet, joint).val,
               err |-> ewmcovValue(coreSet, joint).err]
    /\ UNCHANGED <<quantileVars, coreSet, engine, momentConfig, moment, jointConfig, joint,
                   pc, hist, dropped>>
    /\ UNCHANGED lockVars

EWMCovClear ==
    /\ engine = "EWMCov"
    /\ joint' = ewmcovClear(coreSet, joint)
    /\ arg' = Nil
    /\ ret' = Done("Clear", OK)
    /\ hist' = IF coreSet THEN <<>> ELSE hist
    /\ UNCHANGED <<quantileVars, coreSet, engine, momentConfig, moment, jointConfig,
                   pc, dropped>>
    /\ UNCHANGED lockVars

StdPush(x) ==
    /\ engine = "Std"
    /\ Len(hist) < MaxPushes
    /\ moment' = stdPush(coreSet, moment, x).core
    /\ arg' = <<x>>
    /\ ret' = Done("Push", stdPush(coreSet, moment, x).err)
    /\ hist' = IF ret'.err = OK THEN Append(hist, x) ELSE hist
    /\ UNCHANGED <<quantileVars, coreSet, engine, momentConfig, jointConfig, joint,
                   pc, dropped>>
    /\ UNCHANGED lockVars

StdValue ==
    /\ engine = "Std"
    /\ arg' = Nil
    /\ ret' = [op |-> "Value", err |-> stdValue(coreSet, moment).err]
    /\ UNCHANGED <<quantileVars, coreSet, engine, momentConfig, moment, jointConfig, joint,
                   pc, hist, dropped>>
    /\ UNCHANGED lockVars

StdClear ==
    /\ engine = "Std"
    /\ moment' = stdClear(coreSet, moment)
    /\ arg' = Nil
    /\ ret' = Done("Clear", OK)
    /\ hist' = IF coreSet THEN <<>> ELSE hist
    /\ UNCHANGED <<quantileVars, coreSet, engine, momentConfig, jointConfig, joint,
                   pc, dropped>>
    /\ UNCHANGED lockVars

MetricInit ==
    /\ engine \in {"EWMCov", "Std"}
    /\ momentConfig \in [Sums : {{2}}, Window : Windows, Decay : {Nil}]
    /\ jointConfig \in {EWMCovConfig(decay) : decay \in EWMCovDecays}
    /\ engine = "EWMCov" => momentConfig = DefaultMomentConfig
    /\ engine = "Std" => jointConfig = EWMCovConfig(<<1, 2>>)
    /\ moment = NewCore(momentConfig)
    /\ joint = jointNewCore(jointConfig)
    /\ pc = "idle"
    /\ arg = Nil
    /\ ret = Done("New", OK)
    /\ hist = <<>>
    /\ dropped = 0
    /\ mux = Unlocked
    /\ threads = <<>>
    /\ writes = 0
    /\ median = NewHeapMedian(0)
    /\ tree = NilNode
    /\ bag = <<>>
    /\ coreSet = FALSE

MetricNext ==
    \/ SetCore
    \/ \E xs \in JointObs \cup BadArity : EWMCovPush(xs)
    \/ EWMCovValue
    \/ EWMCovClear
    \/ \E x \in Values : StdPush(x)
    \/ StdValue
    \/ StdClear

MetricSpec == MetricInit /\ [][MetricNext]_vars

(***************************************************************************)
(* C26: while no core is set, Push and Value of EWMCov and of Std return   *)
(* the error "Core is not set" and Clear does nothing; with a core set,    *)
(* EWMCov.Push with a number of values other than 2 returns an error and   *)
(* pushes nothing: the core is as it was.                                  *)
(***************************************************************************)
C26_NoCoreStep ==
    ~coreSet /\ coreSet' = coreSet =>
        /\ ret'.op \in {"Push", "Value"} => ret'.err = ErrorCoreNotSet
        /\ moment' = moment
        /\ joint' = joint

C26_ArityStep ==
    (coreSet /\ engine = "EWMCov" /\ ret'.op = "Push" /\ Len(arg') # 2) =>
        /\ ret'.err # OK
        /\ joint' = joint

C26_WrapperGuards == [][C26_NoCoreStep /\ C26_ArityStep]_vars

\* a core that holds observations has refused a Push of one or three values
C26_Witness ==
    /\ engine = "EWMCov"
    /\ coreSet
    /\ jointUnsafeCount(joint) > 0
    /\ ret.op = "Push"
    /\ ret.err = ErrorEWMCovArity

====
